---------------------------- MODULE Spec2Model ----------------------------
(***************************************************************************)
(* A model of streamlit_app.py: the approval / expiry state machine of the *)
(* community directory, its visibility filter and the submission and       *)
(* moderation handlers, over a spreadsheet store.                          *)
(*                                                                         *)
(* Cell values are sequences of one-character strings, so that str.strip,  *)
(* str.lower, int() and the ISO date conversions are computed the way the  *)
(* code computes them.  A worksheet is the grid gspread returns: a         *)
(* sequence of rows, row 1 being the header row.  Only the columns the     *)
(* handlers read or write are kept.                                        *)
(*                                                                         *)
(* Time: `today` is the proleptic Gregorian ordinal of the current date    *)
(* (datetime.date.toordinal) and `tod` the position inside the day, 0      *)
(* being the instant 00:00:00 UTC.  The server's local zone is UTC, so     *)
(* dt.date.today() and pd.Timestamp.utcnow() read one clock.               *)
(*                                                                         *)
(* Store: every gspread call is one request; `down` holds the calls that   *)
(* raise APIError at present.  The handler actions run a whole script run  *)
(* of one session at once; the Store* and Retry* actions run the store     *)
(* functions one gspread call at a time, so that the script runs of two    *)
(* sessions (Streamlit runs each in its own thread) interleave.            *)
(***************************************************************************)
EXTENDS Integers, Sequences, FiniteSets, TLC

\* sheet    : worksheet name -> the grid of cell values (row 1 is the header row)
\* cache    : st.cache_data, worksheet name -> the frame read_df cached, or NoEntry
\* me       : session -> st.session_state.me (None when unset)
\* is_admin : session -> st.session_state.is_admin
\* today,tod: the clock
\* lastOp   : the last handler that ran, with what it was given and what it found
\* hist     : worksheet name -> per sheet row, whether the row was created approved,
\*            whether approve_by_id has written it, and how often extend_expiry has
\*            written it
\* cfg      : the bounds of the specification being checked
\* down     : the gspread calls that raise APIError at present
\* job      : session -> the store function the session's script run is inside
\*            (its position and its local variables), Idle between runs
VARIABLES sheet, cache, me, is_admin, today, tod, lastOp, hist, cfg, down, job

vars == <<sheet, cache, me, is_admin, today, tod, lastOp, hist, cfg, down, job>>

(***************************************************************************)
(* Bounds of the model.                                                    *)
(***************************************************************************)
\* instants modelled per day; instant 0 is midnight UTC
TicksPerDay == 2
\* Spec: data rows over all worksheets, and days the clock may advance
MaxRows == 2
MaxDays == 1
\* SpecScenario: days the clock may advance
ScenarioDays == 46
\* SpecDup: data rows over all worksheets
DupRows == 3
\* "Apply extension" is pressed at most this often for one row
MaxExtends == 1
\* the ordinal of the day the clock starts at (2024-02-25)
StartDay == 738941

(***************************************************************************)
(* Python str helpers.                                                     *)
(***************************************************************************)
UpperChars == <<"A","B","C","D","E","F","G","H","I","J","K","L","M",
                "N","O","P","Q","R","S","T","U","V","W","X","Y","Z">>
LowerChars == <<"a","b","c","d","e","f","g","h","i","j","k","l","m",
                "n","o","p","q","r","s","t","u","v","w","x","y","z">>
DigitChars == <<"0","1","2","3","4","5","6","7","8","9">>
Whitespace == {" ", "\t", "\n", "\r"}

IndexIn(seq, c) == IF \E i \in 1..Len(seq) : seq[i] = c
                   THEN CHOOSE i \in 1..Len(seq) : seq[i] = c
                   ELSE 0

LowerChar(c) == IF IndexIn(UpperChars, c) > 0 THEN LowerChars[IndexIn(UpperChars, c)] ELSE c
UpperChar(c) == IF IndexIn(LowerChars, c) > 0 THEN UpperChars[IndexIn(LowerChars, c)] ELSE c

\* str.lower()
StrLower(s) == [i \in 1..Len(s) |-> LowerChar(s[i])]
\* str.upper()
StrUpper(s) == [i \in 1..Len(s) |-> UpperChar(s[i])]

\* str.strip(): leading and trailing whitespace removed
StrStrip(s) ==
    LET keep == {i \in 1..Len(s) : s[i] \notin Whitespace}
    IN  IF keep = {} THEN <<>>
        ELSE LET lo == CHOOSE i \in keep : \A j \in keep : i <= j
                 hi == CHOOSE i \in keep : \A j \in keep : j <= i
             IN  SubSeq(s, lo, hi)

IsDigits(s) == Len(s) > 0 /\ \A i \in 1..Len(s) : IndexIn(DigitChars, s[i]) > 0

RECURSIVE DigitsValue(_)
DigitsValue(s) == IF s = <<>> THEN 0
                  ELSE 10 * DigitsValue(SubSeq(s, 1, Len(s) - 1))
                       + (IndexIn(DigitChars, s[Len(s)]) - 1)

\* int(s): surrounding whitespace is ignored; -1 stands for ValueError.
\* (Signs and underscores, which int() also reads, are not in the model's inputs.)
ParseInt(s) == IF IsDigits(StrStrip(s)) THEN DigitsValue(StrStrip(s)) ELSE -1

RECURSIVE NatDigits(_)
NatDigits(n) == IF n < 10 THEN <<DigitChars[n + 1]>>
                ELSE NatDigits(n \div 10) \o <<DigitChars[(n % 10) + 1]>>

\* str(n) for n >= 0
StrOfInt(n) == NatDigits(n)

RECURSIVE ZeroPad(_, _)
ZeroPad(s, width) == IF Len(s) >= width THEN s ELSE ZeroPad(<<"0">> \o s, width)

(***************************************************************************)
(* datetime.date: ordinals, isoformat and fromisoformat (CPython's          *)
(* _ymd2ord and _ord2ymd).                                                 *)
(***************************************************************************)
IsLeap(y) == y % 4 = 0 /\ (y % 100 # 0 \/ y % 400 = 0)

\* _DAYS_IN_MONTH[1..12] and _DAYS_BEFORE_MONTH[1..12]
DaysInMonthTable     == <<31, 28, 31, 30, 31, 30, 31, 31, 30, 31, 30, 31>>
DaysBeforeMonthTable == <<0, 31, 59, 90, 120, 151, 181, 212, 243, 273, 304, 334>>

DaysInMonth(y, m) == IF m = 2 /\ IsLeap(y) THEN 29 ELSE DaysInMonthTable[m]

DaysBeforeMonth(y, m) == DaysBeforeMonthTable[m] + (IF m > 2 /\ IsLeap(y) THEN 1 ELSE 0)

DaysBeforeYear(year) == LET y == year - 1
                        IN  y * 365 + (y \div 4) - (y \div 100) + (y \div 400)

Ymd2Ord(y, m, d) == DaysBeforeYear(y) + DaysBeforeMonth(y, m) + d

Ord2Ymd(ord) ==
    LET n0   == ord - 1
        n400 == n0 \div 146097
        r400 == n0 % 146097
        n100 == r400 \div 36524
        r100 == r400 % 36524
        n4   == r100 \div 1461
        r4   == r100 % 1461
        n1   == r4 \div 365
        n    == r4 % 365
        year == n400 * 400 + 1 + n100 * 100 + n4 * 4 + n1
    IN  IF n1 = 4 \/ n100 = 4
        THEN [y |-> year - 1, m |-> 12, d |-> 31]
        ELSE LET leapyear == n1 = 3 /\ (n4 # 24 \/ n100 = 3)
                 guess    == (n + 50) \div 32
                 before   == DaysBeforeMonthTable[guess]
                             + (IF guess > 2 /\ leapyear THEN 1 ELSE 0)
                 month    == IF before > n THEN guess - 1 ELSE guess
                 preceding == IF before > n
                              THEN before - (DaysInMonthTable[month]
                                             + (IF month = 2 /\ leapyear THEN 1 ELSE 0))
                              ELSE before
             IN  [y |-> year, m |-> month, d |-> n - preceding + 1]

\* date.isoformat(): "YYYY-MM-DD"
IsoFormat(ord) ==
    LET t == Ord2Ymd(ord)
    IN  ZeroPad(NatDigits(t.y), 4) \o <<"-">> \o ZeroPad(NatDigits(t.m), 2)
        \o <<"-">> \o ZeroPad(NatDigits(t.d), 2)

\* The ordinal of the date a string spells as YYYY-MM-DD, 0 when it spells none
\* (ValueError in date.fromisoformat, NaT in pd.to_datetime(errors="coerce")).
\* The model's inputs are such dates, blanks and strings no version of either
\* parser reads as a date.
ParseIsoDate(s) ==
    IF /\ Len(s) = 10
       /\ s[5] = "-" /\ s[8] = "-"
       /\ IsDigits(SubSeq(s, 1, 4)) /\ IsDigits(SubSeq(s, 6, 7)) /\ IsDigits(SubSeq(s, 9, 10))
    THEN LET y == DigitsValue(SubSeq(s, 1, 4))
             m == DigitsValue(SubSeq(s, 6, 7))
             d == DigitsValue(SubSeq(s, 9, 10))
         IN  IF y >= 1 /\ m \in 1..12 /\ d >= 1 /\ d <= DaysInMonth(y, m)
             THEN Ymd2Ord(y, m, d) ELSE 0
    ELSE 0


(***************************************************************************)
(* Cell values and the worksheets.                                         *)
(***************************************************************************)
Blank      == <<>>
\* Python's None, where a cell value or a column name is expected
None       == <<"<None>">>
s_TRUE     == <<"T","R","U","E">>
s_REJECTED == <<"R","E","J","E","C","T","E","D">>

H_Member_ID     == <<"M","e","m","b","e","r","_","I","D">>
H_Listing_ID    == <<"L","i","s","t","i","n","g","_","I","D">>
H_Vendor_ID     == <<"V","e","n","d","o","r","_","I","D">>
H_Show_ID       == <<"S","h","o","w","_","I","D">>
H_Approved      == <<"A","p","p","r","o","v","e","d">>
H_Email         == <<"E","m","a","i","l">>
H_Member_Email  == <<"M","e","m","b","e","r","_","E","m","a","i","l">>
H_Duration_Days == <<"D","u","r","a","t","i","o","n","_","D","a","y","s">>
H_Expires_On    == <<"E","x","p","i","r","e","s","_","O","n">>

\* The header lists, cut to the columns the handlers read or write.
\* Business_Name / Vendor_Name, and Short_Description
NameCol(t) == IF t = "Business_Listings"
              THEN <<"B","u","s","i","n","e","s","s","_","N","a","m","e">>
              ELSE <<"V","e","n","d","o","r","_","N","a","m","e">>
H_Short_Description ==
    <<"S","h","o","r","t","_","D","e","s","c","r","i","p","t","i","o","n">>

MEM_HEADERS  == <<H_Member_ID, H_Approved, H_Email>>
DIR_HEADERS  == <<H_Listing_ID, H_Approved, H_Member_Email, NameCol("Business_Listings"),
                  H_Short_Description, H_Duration_Days, H_Expires_On>>
VEN_HEADERS  == <<H_Vendor_ID, H_Approved, H_Member_Email, NameCol("Vicinity_Vendors"),
                  H_Short_Description, H_Duration_Days, H_Expires_On>>
SHOW_HEADERS == <<H_Show_ID, H_Approved>>
\* Target_ID, Rater_Email
RATE_HEADERS == << <<"T","a","r","g","e","t","_","I","D">>,
                  <<"R","a","t","e","r","_","E","m","a","i","l">> >>
\* Ticket_ID, Email
SUPP_HEADERS == << <<"T","i","c","k","e","t","_","I","D">>, H_Email >>

Tabs == {"Members", "Business_Listings", "Vicinity_Vendors", "Showcase",
         "Ratings", "Support_Tickets"}

REQUIRED_TABS == [t \in Tabs |->
    CASE t = "Members"           -> MEM_HEADERS
      [] t = "Business_Listings" -> DIR_HEADERS
      [] t = "Vicinity_Vendors"  -> VEN_HEADERS
      [] t = "Showcase"          -> SHOW_HEADERS
      [] t = "Ratings"           -> RATE_HEADERS
      [] t = "Support_Tickets"   -> SUPP_HEADERS]

\* The identifier column and the identifier prefix of each worksheet.
IdCol(t) == REQUIRED_TABS[t][1]
IdPrefix(t) == CASE t = "Members"           -> <<"M", "-">>
                 [] t = "Business_Listings" -> <<"D", "-">>
                 [] t = "Vicinity_Vendors"  -> <<"V", "-">>
                 [] t = "Showcase"          -> <<"S", "-">>
                 [] t = "Support_Tickets"   -> <<"T", "-">>

\* TRUE_LIKE, had it held the one token the application writes
TRUE_LIKE_only_true == {<<"t","r","u","e">>}

TRUE_LIKE == {<<"t","r","u","e">>, <<"y","e","s">>, <<"y">>, <<"1">>}

\* The ascending sequence of the members of a finite set of numbers.
RECURSIVE SortedSeq(_)
SortedSeq(S) == IF S = {} THEN <<>>
                ELSE LET lo == CHOOSE x \in S : \A y \in S : x <= y
                     IN  <<lo>> \o SortedSeq(S \ {lo})

Range(f) == {f[i] : i \in DOMAIN f}

(***************************************************************************)
(* pandas DataFrames, as read_df builds them from get_all_values().        *)
(***************************************************************************)
EmptyDF == [columns |-> <<>>, rows |-> <<>>]

ToDF(vals) == IF vals = <<>> THEN EmptyDF
              ELSE IF Len(vals) = 1 THEN [columns |-> vals[1], rows |-> <<>>]
              ELSE [columns |-> vals[1], rows |-> Tail(vals)]

\* DataFrame.empty
DfEmpty(df) == df.rows = <<>> \/ df.columns = <<>>

\* the position of a column, 0 when the frame has no such column
ColOf(df, name) == IndexIn(df.columns, name)

\* row.get(name, "")
RowGet(df, row, name) == IF ColOf(df, name) = 0 THEN Blank ELSE row[ColOf(df, name)]

\* The cache of st.cache_data: an entry per worksheet name, or NoEntry.
NoEntry == [hit |-> FALSE, df |-> EmptyDF]
NoCache == [t \in Tabs |-> NoEntry]

\* The gspread calls of the read and moderation paths; each may raise APIError
\* while the store is unreachable or over quota.
ApiCalls == {"get_all_values", "row_values", "col_values", "cell", "update_cell"}

\* read_df(tab), had its try block had no except clause to fall back on
read_df_unguarded(sh, c, tab) == IF c[tab].hit THEN c[tab].df ELSE ToDF(sh[tab])

\* read_df(tab) with the cache c: the cached frame, else the worksheet's rows,
\* else (the read raised) an empty frame
read_df(sh, c, tab) ==
    IF c[tab].hit THEN c[tab].df
    ELSE IF "get_all_values" \in down THEN EmptyDF
    ELSE ToDF(sh[tab])

\* the cache after read_df(tab)
Cached(sh, c, tab) == [c EXCEPT ![tab] = [hit |-> TRUE, df |-> read_df(sh, c, tab)]]

\* the cache after read_df of each worksheet of a sequence, in order
RECURSIVE ReadAll(_, _, _)
ReadAll(sh, c, tabs) == IF tabs = <<>> THEN c
                        ELSE ReadAll(sh, Cached(sh, c, Head(tabs)), Tail(tabs))

\* clear_cache()
clear_cache == NoCache

(***************************************************************************)
(* df_public                                                               *)
(***************************************************************************)
\* pd.Timestamp.utcnow(), in instants
UtcNow == today * TicksPerDay + tod

\* pd.to_datetime(cell, errors="coerce", utc=True): midnight of the date, 0 for NaT
ToDatetime(cell) == ParseIsoDate(cell) * TicksPerDay

\* df_public, had it dropped the rows whose Expires_On is not a date (no _exp.isna())
df_public_rows_nat_expired(df, approved_col, expires_col) ==
    IF DfEmpty(df) THEN <<>>
    ELSE LET ok(i)  == \/ ColOf(df, approved_col) = 0
                       \/ StrLower(StrStrip(df.rows[i][ColOf(df, approved_col)])) \in TRUE_LIKE
             exp(i) == ToDatetime(df.rows[i][ColOf(df, expires_col)])
             live(i) == \/ expires_col = None
                        \/ ColOf(df, expires_col) = 0
                        \/ exp(i) >= UtcNow
         IN  SortedSeq({i \in 1..Len(df.rows) : ok(i) /\ live(i)})

\* the positions (in df.rows) of the rows df_public keeps
df_public_rows(df, approved_col, expires_col) ==
    IF DfEmpty(df) THEN <<>>
    ELSE LET ok(i)  == \/ ColOf(df, approved_col) = 0
                       \/ StrLower(StrStrip(df.rows[i][ColOf(df, approved_col)])) \in TRUE_LIKE
             exp(i) == ToDatetime(df.rows[i][ColOf(df, expires_col)])
             live(i) == \/ expires_col = None
                        \/ ColOf(df, expires_col) = 0
                        \/ exp(i) = 0
                        \/ exp(i) >= UtcNow
         IN  SortedSeq({i \in 1..Len(df.rows) : ok(i) /\ live(i)})

df_public(df, approved_col, expires_col) ==
    IF DfEmpty(df) THEN EmptyDF
    ELSE LET keep == df_public_rows(df, approved_col, expires_col)
         IN  [columns |-> df.columns, rows |-> [k \in 1..Len(keep) |-> df.rows[keep[k]]]]

(***************************************************************************)
(* member_is_approved                                                      *)
(***************************************************************************)
\* member_is_approved, had it compared the emails as they are typed and stored
member_is_approved_exact(email, df) ==
    /\ email # Blank
    /\ ~DfEmpty(df) /\ ColOf(df, H_Email) # 0 /\ ColOf(df, H_Approved) # 0
    /\ \E i \in 1..Len(df.rows) :
          /\ df.rows[i][ColOf(df, H_Email)] = email
          /\ StrLower(StrStrip(df.rows[i][ColOf(df, H_Approved)])) \in TRUE_LIKE

member_is_approved(email, df) ==
    IF email = Blank THEN FALSE
    ELSE IF DfEmpty(df) \/ ColOf(df, H_Email) = 0 THEN FALSE
    ELSE LET m == {i \in 1..Len(df.rows) :
                     StrLower(StrStrip(df.rows[i][ColOf(df, H_Email)]))
                       = StrLower(StrStrip(email))}
         IN  \E i \in m :
               /\ ColOf(df, H_Approved) # 0
               /\ StrLower(StrStrip(df.rows[i][ColOf(df, H_Approved)])) \in TRUE_LIKE

\* m["Approved"] raises KeyError: rows match the email and the frame has no
\* Approved column
member_check_raises(email, df) ==
    /\ email # Blank
    /\ ~DfEmpty(df)
    /\ ColOf(df, H_Email) # 0
    /\ ColOf(df, H_Approved) = 0
    /\ \E i \in 1..Len(df.rows) :
          StrLower(StrStrip(df.rows[i][ColOf(df, H_Email)])) = StrLower(StrStrip(email))

(***************************************************************************)
(* Write helpers                                                           *)
(***************************************************************************)
\* ws.append_row([str(data.get(h, "")) for h in headers])
\* _append_row, had it inserted the row below the header row
_insert_row(ws, row) == <<ws[1], row>> \o Tail(ws)

_append_row(ws, row) == Append(ws, row)

\* ws.update_cell(row, col, value)
update_cell(ws, row, col, value) == [ws EXCEPT ![row][col] = value]

\* uuid.uuid4().hex[:8].upper() is the argument hex
save_member(ws, hex, email) ==
    _append_row(ws, <<IdPrefix("Members") \o hex, Blank, email>>)

\* save_directory, had it appended the row with Approved = "TRUE"
save_directory_approved(ws, hex, member_email, form, duration_days, day) ==
    _append_row(ws, <<IdPrefix("Business_Listings") \o hex, s_TRUE, member_email,
                      form.name, form.short, StrOfInt(duration_days),
                      IF duration_days > 0 THEN IsoFormat(day + duration_days) ELSE Blank>>)

\* the row save_directory appends on the given day; form holds what was typed
\* into "Business Name *" and "Short Description *"
save_directory(ws, hex, member_email, form, duration_days, day) ==
    LET days == duration_days
    IN  _append_row(ws, <<IdPrefix("Business_Listings") \o hex, Blank, member_email,
                          form.name, form.short, StrOfInt(days),
                          IF days > 0 THEN IsoFormat(day + days) ELSE Blank>>)

save_vendor(ws, hex, member_email, form, duration_days, day) ==
    LET days == duration_days
    IN  _append_row(ws, <<IdPrefix("Vicinity_Vendors") \o hex, Blank, member_email,
                          form.name, form.short, StrOfInt(days),
                          IF days > 0 THEN IsoFormat(day + days) ELSE Blank>>)

\* save_ticket and save_rating append and return: neither calls clear_cache
save_ticket(ws, hex, email) ==
    _append_row(ws, <<IdPrefix("Support_Tickets") \o hex, email>>)

save_rating(ws, listing_id, email) == _append_row(ws, <<listing_id, email>>)

save_showcase(ws, hex, approve) ==
    _append_row(ws, <<IdPrefix("Showcase") \o hex, IF approve THEN s_TRUE ELSE Blank>>)

(***************************************************************************)
(* Admin action helpers                                                    *)
(***************************************************************************)
\* _header_map, had it no default header list to fall back on
_header_map_no_defaults(ws, defaults) ==
    IF "row_values" \in down \/ ws = <<>> THEN <<>> ELSE ws[1]

\* ws.row_values(1) or defaults; defaults when row_values raises APIError.
\* row_values returns the row up to its last non-empty cell ([] for an empty row).
_header_map(ws, defaults) ==
    LET filled == IF ws = <<>> THEN {} ELSE {i \in 1..Len(ws[1]) : ws[1][i] # Blank}
        row1   == IF filled = {} THEN <<>>
                  ELSE SubSeq(ws[1], 1, CHOOSE i \in filled : \A j \in filled : j <= i)
    IN  IF "row_values" \in down \/ row1 = <<>> THEN defaults ELSE row1

\* hdr.get(name): the (last) position of the name in row 1, 0 for None
HdrGet(hdr, name) ==
    IF \E i \in 1..Len(hdr) : hdr[i] = name
    THEN CHOOSE i \in 1..Len(hdr) : hdr[i] = name /\ \A j \in 1..Len(hdr) : hdr[j] = name => j <= i
    ELSE 0

\* the first sheet row (row 1 is the header) whose identifier cell is the identifier, 0 for None
\* (col = [] when col_values raises APIError)
_find_row_by_id(ws, id_col_idx, id_value) ==
    LET col == IF "col_values" \in down THEN {} ELSE 1..Len(ws)
        hit == {i \in col : StrStrip(ws[i][id_col_idx]) = StrStrip(id_value)}
    IN  IF hit = {} THEN 0 ELSE CHOOSE i \in hit : \A j \in hit : i <= j

\* approve_by_id: the worksheet afterwards, the row written (0: none) and whether
\* an APIError left the function (ws.update_cell and ws.cell are not guarded).
\* extra is the sequence of <<column, value>> pairs of the dict.
approve_by_id(ws, id_col, id_val, defaults, extra) ==
    LET hdr    == _header_map(ws, defaults)
        id_idx == HdrGet(hdr, id_col)
        ap_idx == HdrGet(hdr, H_Approved)
        row    == IF id_idx = 0 \/ ap_idx = 0 THEN 0 ELSE _find_row_by_id(ws, id_idx, id_val)
        ws1    == update_cell(ws, row, ap_idx, s_TRUE)
        ws2    == IF extra # <<>> /\ HdrGet(hdr, extra[1][1]) # 0
                  THEN update_cell(ws1, row, HdrGet(hdr, extra[1][1]), extra[1][2])
                  ELSE ws1
    IN  IF row = 0 THEN [ws |-> ws, row |-> 0, raised |-> FALSE]
        ELSE IF "update_cell" \in down THEN [ws |-> ws, row |-> 0, raised |-> TRUE]
        ELSE [ws |-> ws2, row |-> row, raised |-> FALSE]

\* reject_by_id, had it removed the row it finds
reject_by_deleting(ws, id_col, id_val, defaults) ==
    LET hdr == _header_map(ws, defaults)
        row == IF HdrGet(hdr, id_col) = 0 THEN 0
               ELSE _find_row_by_id(ws, HdrGet(hdr, id_col), id_val)
    IN  IF row = 0 THEN [ws |-> ws, row |-> 0, raised |-> FALSE]
        ELSE [ws |-> SubSeq(ws, 1, row - 1) \o SubSeq(ws, row + 1, Len(ws)),
              row |-> row, raised |-> FALSE]

reject_by_id(ws, id_col, id_val, defaults) ==
    LET hdr    == _header_map(ws, defaults)
        id_idx == HdrGet(hdr, id_col)
        ap_idx == HdrGet(hdr, H_Approved)
        row    == IF id_idx = 0 \/ ap_idx = 0 THEN 0 ELSE _find_row_by_id(ws, id_idx, id_val)
    IN  IF row = 0 THEN [ws |-> ws, row |-> 0, raised |-> FALSE]
        ELSE IF "update_cell" \in down THEN [ws |-> ws, row |-> 0, raised |-> TRUE]
        ELSE [ws |-> update_cell(ws, row, ap_idx, s_REJECTED), row |-> row, raised |-> FALSE]

\* extend_expiry, had it always counted from today
extend_from_today(current_cell, extra_days, day) == IsoFormat(day + extra_days)

\* the date extend_expiry writes, given the cell it read
extend_new_date(current_cell, extra_days, day) ==
    LET current == IF current_cell = Blank THEN IsoFormat(day) ELSE current_cell
        cur     == IF ParseIsoDate(current) # 0 THEN ParseIsoDate(current) ELSE day
    IN  IsoFormat(cur + extra_days)

\* extend_expiry, had it also marked the row approved
extend_and_approve(ws, id_col, id_val, defaults, extra_days, day) ==
    LET hdr    == _header_map(ws, defaults)
        id_idx == HdrGet(hdr, id_col)
        ex_idx == HdrGet(hdr, H_Expires_On)
        row    == IF id_idx = 0 \/ ex_idx = 0 THEN 0 ELSE _find_row_by_id(ws, id_idx, id_val)
    IN  IF row = 0 THEN [ws |-> ws, row |-> 0, raised |-> FALSE]
        ELSE [ws |-> update_cell(update_cell(ws, row, HdrGet(hdr, H_Approved), s_TRUE),
                                 row, ex_idx,
                                 extend_new_date(ws[row][ex_idx], extra_days, day)),
              row |-> row, raised |-> FALSE]

extend_expiry(ws, id_col, id_val, defaults, extra_days, day) ==
    LET hdr    == _header_map(ws, defaults)
        id_idx == HdrGet(hdr, id_col)
        ex_idx == HdrGet(hdr, H_Expires_On)
        row    == IF id_idx = 0 \/ ex_idx = 0 THEN 0 ELSE _find_row_by_id(ws, id_idx, id_val)
    IN  IF row = 0 THEN [ws |-> ws, row |-> 0, raised |-> FALSE]
        ELSE IF down \cap {"cell", "update_cell"} # {}
             THEN [ws |-> ws, row |-> 0, raised |-> TRUE]
        ELSE [ws |-> update_cell(ws, row, ex_idx,
                                 extend_new_date(ws[row][ex_idx], extra_days, day)),
              row |-> row, raised |-> FALSE]

\* the dict the Approve listing / Approve vendor handler passes as extra
approve_extra(duration_cell, day) ==
    LET days == ParseInt(IF duration_cell = Blank THEN <<"0">> ELSE duration_cell)
    IN  IF days > 0 THEN <<<<H_Expires_On, IsoFormat(day + days)>>>> ELSE <<>>


(***************************************************************************)
(* Sessions, inputs and the script run.                                    *)
(***************************************************************************)
Sessions == {"s1", "s2"}
\* the sessions of the specification being checked
Live == cfg.sessions

\* st.secrets: the moderator's credentials
APP_USERNAME == <<"a","d","m">>
APP_PASSWORD == <<"p","w">>

\* what users type
UsernameInputs == {<<"a","d","m">>, <<"a","d","m"," ">>, <<"A","d","m">>}
PasswordInputs == {<<"p","w">>, <<"p","w"," ">>}
RegisterEmails == {<<" ","a","@","X">>}
SignInEmails   == {<<"A","@","x"," ">>, <<"c","@","x">>, <<>>}
\* the "Listing duration (days)" select box
DurationOptions == {7, 15, 30, 45, 60, 90}
\* the "Extend by days" number input
ExtendRange == 0..365

PublicReads == <<"Showcase", "Business_Listings", "Vicinity_Vendors">>
AdminReads  == <<"Members", "Business_Listings", "Vicinity_Vendors">>

\* the identifiers of the rows at the given positions of a frame, in order
IdsAt(df, idcol, pos) == [k \in 1..Len(pos) |-> RowGet(df, df.rows[pos[k]], idcol)]

\* Streamlit refuses a second widget with a key already used in the run
\* (DuplicateWidgetID): the run ends at the first repeated key.
NoDupKey(ids, upto) == \A i, j \in 1..upto : i # j => ids[i] # ids[j]

\* The Resident Directory tab draws a rating form, keyed by Listing_ID, for
\* every listing of the public view when the session has a member set.
DirTabCrash(sh, c, m) ==
    LET df   == read_df(sh, c, "Business_Listings")
        keep == df_public_rows(df, H_Approved, H_Expires_On)
    IN  /\ m # None
        /\ ~NoDupKey(IdsAt(df, H_Listing_ID, keep), Len(keep))

\* the cache after a run of the whole script with no widget event
PlainRun(sh, c, m, admin) ==
    LET c2 == ReadAll(sh, c, <<"Showcase", "Business_Listings">>)
    IN  IF DirTabCrash(sh, c2, m) THEN c2
        ELSE ReadAll(sh, c2, <<"Vicinity_Vendors">> \o (IF admin THEN AdminReads ELSE <<>>))

\* the queue filter, had it kept the rows with a blank Approved cell only
PendRows_blank_only(df) ==
    IF ~DfEmpty(df) /\ ColOf(df, H_Approved) # 0
    THEN SortedSeq({i \in 1..Len(df.rows) : df.rows[i][ColOf(df, H_Approved)] = Blank})
    ELSE <<>>

\* pend_m / pend_d / pend_v: the positions of the rows of the moderation queue
PendRows(df) ==
    IF ~DfEmpty(df) /\ ColOf(df, H_Approved) # 0
    THEN SortedSeq({i \in 1..Len(df.rows) : StrUpper(df.rows[i][ColOf(df, H_Approved)]) # s_TRUE})
    ELSE <<>>

\* The queues are drawn in the order Members, Business_Listings, Vicinity_Vendors;
\* the widgets of queue row k of worksheet t are drawn when no key was repeated before.
QueueOrder == <<"Members", "Business_Listings", "Vicinity_Vendors">>

QueueDrawn(c, t, k) ==
    LET pos == IndexIn(QueueOrder, t)
    IN  /\ pos > 0
        /\ k \in 1..Len(PendRows(c[t].df))
        /\ NoDupKey(IdsAt(c[t].df, IdCol(t), PendRows(c[t].df)), k)
        /\ \A q \in 1..(pos - 1) :
             LET u == QueueOrder[q]
             IN  NoDupKey(IdsAt(c[u].df, IdCol(u), PendRows(c[u].df)), Len(PendRows(c[u].df)))

\* the data rows of all worksheets
RowCountOf(sh) == LET n(t) == IF sh[t] = <<>> THEN 0 ELSE Len(sh[t]) - 1
                  IN  n("Members") + n("Business_Listings") + n("Vicinity_Vendors")
                      + n("Showcase") + n("Ratings") + n("Support_Tickets")
RowCount == RowCountOf(sheet)

\* lastOp: the handler (op), its worksheet (tab), the sheet row whose button was
\* pressed (clicked), the sheet row it appended or wrote (row, 0 when it wrote none),
\* its number argument (n), the cell value it overwrote or was given (prev),
\* whether it took effect (ok), what the moderator was shown (msg: "success" for
\* st.success / st.warning of the handler, "exception" for an APIError that left
\* it), the calls that were failing when it ran (down), whether the cache held
\* no entry when its store function returned (cleared), and the username and
\* password typed into the sign-in form (cred).
NoOp == [op |-> "none", tab |-> "none", clicked |-> 0, row |-> 0, n |-> 0,
         prev |-> Blank, ok |-> FALSE, msg |-> "none", down |-> {}, cleared |-> FALSE,
         cred |-> <<>>]

\* no script run of the session is inside a store function; runs counts the
\* store functions the session has called
Idle == [pc |-> "idle", runs |-> 0]

\* the cache holds no entry
Cleared(c) == \A t \in Tabs : ~c[t].hit

\* hist: pre, the row was created with Approved = TRUE; approved, approve_by_id wrote
\* it; ext, the number of times extend_expiry wrote it
NewHist(pre) == [pre |-> pre, approved |-> FALSE, ext |-> 0]

(***************************************************************************)
(* The handlers.  Each action is one run of the script with one widget      *)
(* event, up to and including the rerun the handler asks for.              *)
(***************************************************************************)
\* A page load or a rerun without an event.
ViewPage(s) ==
    /\ cache' = PlainRun(sheet, cache, me[s], is_admin[s])
    /\ cache' # cache
    /\ UNCHANGED <<sheet, me, is_admin, today, tod, lastOp, hist, cfg, down, job>>

\* An entry of the cache passes its time-to-live.
CacheExpire(t) ==
    /\ cache[t].hit
    /\ cache' = [cache EXCEPT ![t] = NoEntry]
    /\ UNCHANGED <<sheet, me, is_admin, today, tod, lastOp, hist, cfg, down, job>>

\* The store becomes unreachable for some calls, or reachable again.
Outage(calls) ==
    /\ calls \in cfg.faults
    /\ calls # down
    /\ down' = calls
    /\ UNCHANGED <<sheet, cache, me, is_admin, today, tod, lastOp, hist, cfg, job>>

\* Somebody renames a header cell of a worksheet in the spreadsheet.
RenameHeader(t, col) ==
    /\ sheet[t][1] = REQUIRED_TABS[t]
    /\ col \in 1..Len(sheet[t][1])
    /\ sheet' = [sheet EXCEPT ![t][1][col] = <<"x">>]
    /\ UNCHANGED <<cache, me, is_admin, today, tod, lastOp, hist, cfg, down, job>>

\* Somebody empties the header row of a worksheet in the spreadsheet.
EraseHeader(t) ==
    /\ sheet[t][1] = REQUIRED_TABS[t]
    /\ sheet' = [sheet EXCEPT ![t][1] = [c \in 1..Len(@) |-> Blank]]
    /\ UNCHANGED <<cache, me, is_admin, today, tod, lastOp, hist, cfg, down, job>>

\* The clock moves to the next instant.
Tick ==
    /\ IF tod + 1 < TicksPerDay
       THEN tod' = tod + 1 /\ today' = today
       ELSE tod' = 0 /\ today' = today + 1 /\ today < cfg.lastDay
    /\ UNCHANGED <<sheet, cache, me, is_admin, lastOp, hist, cfg, down, job>>

\* member_bar: "Set as me"
SetAsMe(s, typed) ==
    LET email_in == StrStrip(typed)
        boom     == member_check_raises(email_in, read_df(sheet, cache, "Members"))
        ok       == member_is_approved(email_in, read_df(sheet, cache, "Members"))
        c1       == IF email_in = Blank THEN cache ELSE Cached(sheet, cache, "Members")
        m        == IF ok THEN email_in ELSE me[s]
    IN  /\ me' = [me EXCEPT ![s] = m]
        /\ cache' = IF boom THEN c1 ELSE PlainRun(sheet, c1, m, is_admin[s])
        /\ lastOp' = [NoOp EXCEPT !.op = "set_me", !.tab = "Members", !.ok = ok,
                                  !.prev = email_in, !.down = down,
                                  !.msg = IF boom THEN "exception"
                                          ELSE IF ok THEN "success" ELSE "warning"]
        /\ UNCHANGED <<sheet, is_admin, today, tod, hist, cfg, down, job>>

\* Register tab: save_member
Register(s, email, hex) ==
    /\ RowCount < cfg.maxRows
    /\ ~DirTabCrash(sheet, cache, me[s])
    /\ sheet' = [sheet EXCEPT !["Members"] = save_member(@, hex, email)]
    /\ hist' = [hist EXCEPT !["Members"] = Append(@, NewHist(FALSE))]
    /\ cache' = ReadAll(sheet', clear_cache, IF is_admin[s] THEN AdminReads ELSE <<>>)
    /\ lastOp' = [NoOp EXCEPT !.op = "save_member", !.tab = "Members",
                              !.row = Len(sheet'["Members"]), !.msg = "success",
                              !.cleared = Cleared(clear_cache)]
    /\ UNCHANGED <<me, is_admin, today, tod, cfg, down, job>>

\* Resident Directory tab: "Submit for approval" (save_directory) and
\* Vicinity Vendors tab: "Submit vendor" (save_vendor)
Submit(s, t, duration, hex, form) ==
    /\ RowCount < cfg.maxRows
    /\ duration \in DurationOptions
    /\ me[s] # None
    /\ ~DirTabCrash(sheet, cache, me[s])
    /\ sheet' = [sheet EXCEPT ![t] = IF t = "Business_Listings"
                                     THEN save_directory(@, hex, me[s], form, duration, today)
                                     ELSE save_vendor(@, hex, me[s], form, duration, today)]
    /\ hist' = [hist EXCEPT ![t] = Append(@, NewHist(FALSE))]
    /\ cache' = ReadAll(sheet', clear_cache,
                        (IF t = "Business_Listings" THEN <<"Vicinity_Vendors">> ELSE <<>>)
                        \o (IF is_admin[s] THEN AdminReads ELSE <<>>))
    /\ lastOp' = [NoOp EXCEPT !.op = IF t = "Business_Listings" THEN "save_directory"
                                                              ELSE "save_vendor",
                              !.tab = t, !.n = duration,
                              !.row = Len(sheet'[t]), !.prev = me[s],
                              !.ok = member_is_approved(me[s], ToDF(sheet["Members"])),
                              !.msg = "success", !.cleared = Cleared(clear_cache)]
    /\ UNCHANGED <<me, is_admin, today, tod, cfg, down, job>>

SubmitListing(s, duration, hex, form) == Submit(s, "Business_Listings", duration, hex, form)
SubmitVendor(s, duration, hex, form)  == Submit(s, "Vicinity_Vendors", duration, hex, form)

\* Support tab: "Create Ticket" (save_ticket); the tabs before it have been drawn
CreateTicket(s, email, hex) ==
    LET kept == ReadAll(sheet, cache, PublicReads)
    IN  /\ RowCount < cfg.maxRows
        /\ ~DirTabCrash(sheet, cache, me[s])
        /\ sheet' = [sheet EXCEPT !["Support_Tickets"] = save_ticket(@, hex, email)]
        /\ hist' = [hist EXCEPT !["Support_Tickets"] = Append(@, NewHist(FALSE))]
        /\ cache' = ReadAll(sheet', kept, IF is_admin[s] THEN AdminReads ELSE <<>>)
        /\ lastOp' = [NoOp EXCEPT !.op = "save_ticket", !.tab = "Support_Tickets",
                                  !.row = Len(sheet'["Support_Tickets"]), !.prev = email,
                                  !.msg = "success", !.cleared = Cleared(kept)]
        /\ UNCHANGED <<me, is_admin, today, tod, cfg, down, job>>

\* Resident Directory tab: "Submit rating" (save_rating) in the form of the k-th
\* listing of the public view
SubmitRating(s, k) ==
    LET kept == ReadAll(sheet, cache, <<"Showcase", "Business_Listings">>)
        df   == read_df(sheet, kept, "Business_Listings")
        keep == df_public_rows(df, H_Approved, H_Expires_On)
    IN  /\ RowCount < cfg.maxRows
        /\ me[s] # None
        /\ ~DirTabCrash(sheet, cache, me[s])
        /\ k \in 1..Len(keep)
        /\ sheet' = [sheet EXCEPT !["Ratings"] =
                        save_rating(@, RowGet(df, df.rows[keep[k]], H_Listing_ID), me[s])]
        /\ hist' = [hist EXCEPT !["Ratings"] = Append(@, NewHist(FALSE))]
        /\ cache' = ReadAll(sheet', kept, <<"Vicinity_Vendors">>
                                          \o (IF is_admin[s] THEN AdminReads ELSE <<>>))
        /\ lastOp' = [NoOp EXCEPT !.op = "save_rating", !.tab = "Ratings",
                                  !.row = Len(sheet'["Ratings"]), !.prev = me[s],
                                  !.msg = "success", !.cleared = Cleared(kept)]
        /\ UNCHANGED <<me, is_admin, today, tod, cfg, down, job>>

\* admin_login_ui: "Sign in"
AdminLogin(s, u, p) ==
    LET good == StrStrip(u) = APP_USERNAME /\ p = APP_PASSWORD
        c    == ReadAll(sheet, cache, PublicReads)
    IN  /\ ~is_admin[s]
        /\ ~DirTabCrash(sheet, cache, me[s])
        /\ is_admin' = [is_admin EXCEPT ![s] = good]
        /\ cache' = IF good THEN PlainRun(sheet, c, me[s], TRUE) ELSE c
        /\ lastOp' = [NoOp EXCEPT !.op = "login", !.ok = good, !.cred = <<u, p>>]
        /\ UNCHANGED <<sheet, me, today, tod, hist, cfg, down, job>>

\* Admin tab: "Add to Showcase" (save_showcase)
AddShowcase(s, approve_now, hex) ==
    /\ RowCount < cfg.maxRows
    /\ is_admin[s]
    /\ ~DirTabCrash(sheet, cache, me[s])
    /\ sheet' = [sheet EXCEPT !["Showcase"] = save_showcase(@, hex, approve_now)]
    /\ hist' = [hist EXCEPT !["Showcase"] = Append(@, NewHist(approve_now))]
    /\ cache' = ReadAll(sheet', clear_cache, AdminReads)
    /\ lastOp' = [NoOp EXCEPT !.op = "save_showcase", !.tab = "Showcase",
                              !.row = Len(sheet'["Showcase"]), !.ok = approve_now,
                              !.msg = "success", !.cleared = Cleared(clear_cache)]
    /\ UNCHANGED <<me, is_admin, today, tod, cfg, down, job>>

\* The cache when the Admin tab draws its queues.
AdminCache == ReadAll(sheet, cache, PublicReads \o AdminReads)

\* The moderator can press the buttons of queue row k of worksheet t.
QueueButton(s, t, k) ==
    /\ is_admin[s]
    /\ ~DirTabCrash(sheet, cache, me[s])
    /\ QueueDrawn(AdminCache, t, k)

\* the frame the queue of worksheet t is drawn from, and the frame row behind queue row k
QueueFrame(t) == read_df(sheet, cache, t)
QueueRow(t, k) == QueueFrame(t).rows[PendRows(QueueFrame(t))[k]]

\* the cell of a sheet row under a header name, before the handler's write
PrevCell(t, row, name) ==
    IF row = 0 \/ HdrGet(_header_map(sheet[t], REQUIRED_TABS[t]), name) = 0 THEN Blank
    ELSE sheet[t][row][HdrGet(_header_map(sheet[t], REQUIRED_TABS[t]), name)]

\* the queue handlers, had the store functions called clear_cache() before
\* looking for the row
AfterStoreCall_clearing_first(s, t, r, op, k, n, prev) ==
    /\ sheet' = [sheet EXCEPT ![t] = r.ws]
    /\ cache' = IF r.raised THEN clear_cache ELSE PlainRun(sheet', clear_cache, me[s], TRUE)
    /\ lastOp' = [op |-> op, tab |-> t, clicked |-> PendRows(QueueFrame(t))[k] + 1,
                  row |-> r.row, n |-> n, prev |-> prev, ok |-> r.row # 0,
                  msg |-> IF r.raised THEN "exception" ELSE "success",
                  down |-> down, cleared |-> TRUE, cred |-> <<>>]
    /\ UNCHANGED <<me, is_admin, today, tod, cfg, down, job>>

\* what every queue handler does after its store call: st.success (st.warning
\* for a reject) and _safe_rerun, whatever the store function did; an APIError
\* that leaves the store function ends the run there.
AfterStoreCall(s, t, r, op, k, n, prev) ==
    LET kept == IF r.row = 0 THEN AdminCache ELSE clear_cache
    IN  /\ sheet' = [sheet EXCEPT ![t] = r.ws]
        /\ cache' = IF r.raised THEN kept ELSE PlainRun(sheet', kept, me[s], TRUE)
        /\ lastOp' = [op |-> op, tab |-> t, clicked |-> PendRows(QueueFrame(t))[k] + 1,
                      row |-> r.row, n |-> n, prev |-> prev, ok |-> r.row # 0,
                      msg |-> IF r.raised THEN "exception" ELSE "success",
                      down |-> down, cleared |-> Cleared(kept), cred |-> <<>>]
        /\ UNCHANGED <<me, is_admin, today, tod, cfg, down, job>>

\* "Approve member"
ApproveMember(s, k) ==
    /\ QueueButton(s, "Members", k)
    /\ LET id == RowGet(QueueFrame("Members"), QueueRow("Members", k), H_Member_ID)
           r  == approve_by_id(sheet["Members"], H_Member_ID, id, MEM_HEADERS, <<>>)
       IN  /\ AfterStoreCall(s, "Members", r, "approve", k, 0,
                             PrevCell("Members", r.row, H_Approved))
           /\ hist' = IF r.row = 0 THEN hist
                      ELSE [hist EXCEPT !["Members"][r.row].approved = TRUE]

\* "Reject member", "Reject listing", "Reject vendor"
Reject(s, t, k) ==
    /\ QueueButton(s, t, k)
    /\ LET id == RowGet(QueueFrame(t), QueueRow(t, k), IdCol(t))
           r  == reject_by_id(sheet[t], IdCol(t), id, REQUIRED_TABS[t])
       IN  /\ AfterStoreCall(s, t, r, "reject", k, 0,
                             PrevCell(t, r.row, H_Approved))
           /\ UNCHANGED hist

RejectMember(s, k)  == Reject(s, "Members", k)
RejectListing(s, k) == Reject(s, "Business_Listings", k)
RejectVendor(s, k)  == Reject(s, "Vicinity_Vendors", k)

\* "Approve listing", "Approve vendor"
ApproveWithExpiry(s, t, k) ==
    /\ QueueButton(s, t, k)
    /\ LET row   == QueueRow(t, k)
           extra == approve_extra(RowGet(QueueFrame(t), row, H_Duration_Days), today)
           r     == approve_by_id(sheet[t], IdCol(t), RowGet(QueueFrame(t), row, IdCol(t)),
                                  REQUIRED_TABS[t], extra)
       IN  /\ AfterStoreCall(s, t, r, "approve", k,
                             ParseInt(RowGet(QueueFrame(t), row, H_Duration_Days)),
                             PrevCell(t, r.row, H_Approved))
           /\ hist' = IF r.row = 0 THEN hist
                      ELSE [hist EXCEPT ![t][r.row].approved = TRUE]

ApproveListing(s, k) == ApproveWithExpiry(s, "Business_Listings", k)
ApproveVendor(s, k)  == ApproveWithExpiry(s, "Vicinity_Vendors", k)

\* "Apply extension"
Extend(s, t, k, more) ==
    /\ QueueButton(s, t, k)
    /\ more \in ExtendRange
    /\ LET id == RowGet(QueueFrame(t), QueueRow(t, k), IdCol(t))
           r  == extend_expiry(sheet[t], IdCol(t), id, REQUIRED_TABS[t], more, today)
       IN  /\ r.row # 0 => hist[t][r.row].ext < cfg.maxExtends
           /\ AfterStoreCall(s, t, r, "extend", k, more,
                             PrevCell(t, r.row, H_Expires_On))
           /\ hist' = IF r.row = 0 THEN hist
                      ELSE [hist EXCEPT ![t][r.row].ext = @ + 1]

ExtendListing(s, k, more) == Extend(s, "Business_Listings", k, more)
ExtendVendor(s, k, more)  == Extend(s, "Vicinity_Vendors", k, more)


(***************************************************************************)
(* The store functions, one gspread call at a time.  job[s] holds the      *)
(* position of the script run of session s inside approve_by_id,           *)
(* reject_by_id or extend_expiry, and the function's local variables:      *)
(* hdr, row, the value to write (value), the rows col_values returned      *)
(* (seen), the Expires_On cell before the function wrote (before) and the  *)
(* update_cell calls that succeeded (wrote).                               *)
(***************************************************************************)
\* the column whose position the function resolves besides the identifier column
TargetCol(op) == IF op = "extend" THEN H_Expires_On ELSE H_Approved

\* A queue button is pressed: the handler takes its arguments from the queue row
\* and calls the store function.
StoreBegin(s, t, k, op, more) ==
    /\ job[s].pc = "idle"
    /\ job[s].runs < cfg.maxRuns
    /\ QueueButton(s, t, k)
    /\ op = "extend" =>
          /\ t # "Members"
          /\ more \in ExtendRange
          /\ hist[t][PendRows(QueueFrame(t))[k] + 1].ext
               + Cardinality({u \in Live : job[u].pc # "idle" /\ job[u].op = "extend"})
             < cfg.maxExtends
    /\ job' = [job EXCEPT ![s] =
                 [pc |-> "row_values", runs |-> job[s].runs + 1, op |-> op, tab |-> t,
                  id |-> RowGet(QueueFrame(t), QueueRow(t, k), IdCol(t)),
                  clicked |-> PendRows(QueueFrame(t))[k] + 1,
                  extra |-> IF op = "approve" /\ t # "Members"
                            THEN approve_extra(RowGet(QueueFrame(t), QueueRow(t, k),
                                                      H_Duration_Days), today)
                            ELSE <<>>,
                  more |-> more, hdr |-> <<>>, seen |-> 0, row |-> 0,
                  value |-> Blank, before |-> Blank, wrote |-> 0]]
    /\ cache' = AdminCache
    /\ UNCHANGED <<sheet, me, is_admin, today, tod, lastOp, hist, cfg, down>>

\* hdr = _header_map(ws, defaults); "if not id_idx or not ap_idx: return"
StoreRowValues(s) ==
    /\ job[s].pc = "row_values"
    /\ LET j   == job[s]
           hdr == _header_map(sheet[j.tab], REQUIRED_TABS[j.tab])
       IN  job' = [job EXCEPT ![s] =
                     [j EXCEPT !.hdr = hdr,
                               !.pc = IF HdrGet(hdr, IdCol(j.tab)) = 0
                                         \/ HdrGet(hdr, TargetCol(j.op)) = 0
                                      THEN "return" ELSE "col_values"]]
    /\ UNCHANGED <<sheet, cache, me, is_admin, today, tod, lastOp, hist, cfg, down>>

\* row = _find_row_by_id(ws, id_idx, id_val); "if row is None: return"
StoreColValues(s) ==
    /\ job[s].pc = "col_values"
    /\ LET j   == job[s]
           row == _find_row_by_id(sheet[j.tab], HdrGet(j.hdr, IdCol(j.tab)), j.id)
       IN  job' = [job EXCEPT ![s] =
                     [j EXCEPT !.row = row,
                               !.seen = IF "col_values" \in down THEN 0 ELSE Len(sheet[j.tab]),
                               !.value = IF j.op = "approve" THEN s_TRUE ELSE s_REJECTED,
                               !.pc = IF row = 0 THEN "return"
                                      ELSE IF j.op = "extend" THEN "cell" ELSE "update_cell"]]
    /\ UNCHANGED <<sheet, cache, me, is_admin, today, tod, lastOp, hist, cfg, down>>

\* extend_expiry: current = ws.cell(row, ex_idx).value ...; new_date = ...
StoreCell(s) ==
    /\ job[s].pc = "cell"
    /\ LET j   == job[s]
           cur == sheet[j.tab][j.row][HdrGet(j.hdr, H_Expires_On)]
       IN  job' = [job EXCEPT ![s] =
                     IF "cell" \in down THEN [j EXCEPT !.pc = "raised"]
                     ELSE [j EXCEPT !.before = cur,
                                    !.value = extend_new_date(cur, j.more, today),
                                    !.pc = "update_cell"]]
    /\ UNCHANGED <<sheet, cache, me, is_admin, today, tod, lastOp, hist, cfg, down>>

\* ws.update_cell(row, ap_idx, "TRUE" / "REJECTED") or ws.update_cell(row, ex_idx, new_date)
StoreUpdateCell(s) ==
    /\ job[s].pc = "update_cell"
    /\ LET j    == job[s]
           col  == HdrGet(j.hdr, TargetCol(j.op))
           more == j.op = "approve" /\ j.extra # <<>> /\ HdrGet(j.hdr, j.extra[1][1]) # 0
       IN  IF "update_cell" \in down
           THEN /\ job' = [job EXCEPT ![s] = [j EXCEPT !.pc = "raised"]]
                /\ UNCHANGED <<sheet, hist>>
           ELSE /\ sheet' = [sheet EXCEPT ![j.tab] = update_cell(@, j.row, col, j.value)]
                /\ hist' = IF j.op = "approve"
                           THEN [hist EXCEPT ![j.tab][j.row].approved = TRUE]
                           ELSE IF j.op = "extend"
                           THEN [hist EXCEPT ![j.tab][j.row].ext = @ + 1]
                           ELSE hist
                /\ job' = [job EXCEPT ![s] =
                             [j EXCEPT !.wrote = 1,
                                       !.before = IF more
                                                  THEN sheet[j.tab][j.row][HdrGet(j.hdr, j.extra[1][1])]
                                                  ELSE j.before,
                                       !.pc = IF more THEN "update_extra" ELSE "clear_cache"]]
    /\ UNCHANGED <<cache, me, is_admin, today, tod, lastOp, cfg, down>>

\* approve_by_id: "for k, v in extra.items(): ... ws.update_cell(row, idx, v)"
StoreUpdateExtra(s) ==
    /\ job[s].pc = "update_extra"
    /\ LET j == job[s]
       IN  IF "update_cell" \in down
           THEN /\ job' = [job EXCEPT ![s] = [j EXCEPT !.pc = "raised"]]
                /\ UNCHANGED sheet
           ELSE /\ sheet' = [sheet EXCEPT ![j.tab] =
                               update_cell(@, j.row, HdrGet(j.hdr, j.extra[1][1]), j.extra[1][2])]
                /\ job' = [job EXCEPT ![s] = [j EXCEPT !.wrote = 2, !.pc = "clear_cache"]]
    /\ UNCHANGED <<cache, me, is_admin, today, tod, lastOp, hist, cfg, down>>

\* The store function is left: by clear_cache() at its end, by a bare return, or
\* by an APIError.  The handler then shows its message and asks for the rerun;
\* an APIError ends the run.
StoreEnd(s) ==
    /\ job[s].pc \in {"clear_cache", "return", "raised"}
    /\ LET j    == job[s]
           kept == IF j.pc = "clear_cache" THEN clear_cache ELSE cache
       IN  /\ cache' = IF j.pc = "raised" THEN kept ELSE PlainRun(sheet, kept, me[s], TRUE)
           /\ lastOp' = [NoOp EXCEPT !.op = j.op, !.tab = j.tab, !.clicked = j.clicked,
                                     !.row = IF j.wrote > 0 THEN j.row ELSE 0,
                                     !.n = j.more, !.prev = j.before,
                                     !.ok = j.pc = "clear_cache",
                                     !.msg = IF j.pc = "raised" THEN "exception" ELSE "success",
                                     !.down = down, !.cleared = j.pc = "clear_cache"]
    /\ job' = [job EXCEPT ![s] = [Idle EXCEPT !.runs = job[s].runs]]
    /\ UNCHANGED <<sheet, me, is_admin, today, tod, hist, cfg, down>>


(***************************************************************************)
(* Specifications.                                                         *)
(***************************************************************************)
\* a submission form with both required fields filled in
FilledForm == [name |-> <<"N">>, short |-> <<"d">>]

\* uuid4().hex[:8].upper(): random, and not compared with the identifiers in use
HexChoices == {<<"0","A">>, <<"0","B">>}

OldRow == [pre |-> FALSE, approved |-> FALSE, ext |-> 0]

\* The worksheets as _get_or_create_worksheets leaves them: a header row each.
FreshSheets == [t \in Tabs |-> <<REQUIRED_TABS[t]>>]

\* a Members row that was registered and then approved
ApprovedMember == <<IdPrefix("Members") \o <<"0","A">>, s_TRUE, <<" ","a","@","X">>>>
MemberApproved == [OldRow EXCEPT !.approved = TRUE]

\* FreshSheets after one Register and one ApproveMember
SheetsWithMember == [FreshSheets EXCEPT !["Members"] = Append(@, ApprovedMember)]

\* the history of the rows of sh: the given one for the first Members row
RowHist(sh, first_member) ==
    [t \in Tabs |-> [i \in 1..Len(sh[t]) |->
        IF t = "Members" /\ i = 2 THEN first_member ELSE OldRow]]

InitWith(sh, first_member, bounds) ==
    /\ sheet = sh
    /\ hist = RowHist(sh, first_member)
    /\ cache = NoCache
    /\ me = [s \in bounds.sessions |-> None]
    /\ is_admin = [s \in bounds.sessions |-> FALSE]
    /\ today = StartDay
    /\ tod = 0
    /\ lastOp = NoOp
    /\ cfg = bounds
    /\ down = {}
    /\ job = [s \in bounds.sessions |-> Idle]

Init == InitWith(FreshSheets, OldRow,
                 [maxRows |-> MaxRows, lastDay |-> StartDay + MaxDays, sessions |-> {"s1"},
                  durations |-> {7}, extensions |-> {10}, maxExtends |-> MaxExtends, forms |-> {FilledForm}])

Next ==
    \/ Tick
    \/ \E s \in Live, e \in SignInEmails : SetAsMe(s, e)
    \/ \E s \in Live, e \in RegisterEmails, h \in HexChoices : Register(s, e, h)
    \/ \E s \in Live, d \in cfg.durations, h \in HexChoices, f \in cfg.forms :
          SubmitListing(s, d, h, f)
    \/ \E s \in Live, d \in cfg.durations, h \in HexChoices, f \in cfg.forms :
          SubmitVendor(s, d, h, f)
    \/ \E s \in Live, u \in UsernameInputs, p \in PasswordInputs : AdminLogin(s, u, p)
    \/ \E s \in Live, a \in BOOLEAN, h \in HexChoices : AddShowcase(s, a, h)
    \/ \E s \in Live, k \in 1..cfg.maxRows : ApproveMember(s, k)
    \/ \E s \in Live, k \in 1..cfg.maxRows : RejectMember(s, k)
    \/ \E s \in Live, k \in 1..cfg.maxRows : ApproveListing(s, k)
    \/ \E s \in Live, k \in 1..cfg.maxRows : RejectListing(s, k)
    \/ \E s \in Live, k \in 1..cfg.maxRows, n \in cfg.extensions : ExtendListing(s, k, n)
    \/ \E s \in Live, k \in 1..cfg.maxRows : ApproveVendor(s, k)
    \/ \E s \in Live, k \in 1..cfg.maxRows : RejectVendor(s, k)
    \/ \E s \in Live, k \in 1..cfg.maxRows, n \in cfg.extensions : ExtendVendor(s, k, n)

Spec == Init /\ [][Next]_vars

(***************************************************************************)
(* SpecScenario: one listing over ScenarioDays days, submitted with        *)
(* duration 30 on the first day, approved on the sixth, extended by 10     *)
(* from the forty-first on.                                                *)
(***************************************************************************)
InitScenario ==
    InitWith(SheetsWithMember, MemberApproved,
             [maxRows |-> RowCountOf(SheetsWithMember) + 1, lastDay |-> StartDay + ScenarioDays,
              sessions |-> {"s1"},
              durations |-> {30}, extensions |-> {10}, maxExtends |-> MaxExtends, forms |-> {FilledForm},
              submitOn |-> StartDay, approveOn |-> StartDay + 5, extendFrom |-> StartDay + 40])

NextScenario ==
    \/ Tick
    \/ \E s \in Live, e \in SignInEmails : SetAsMe(s, e)
    \/ \E s \in Live, u \in UsernameInputs, p \in PasswordInputs : AdminLogin(s, u, p)
    \/ \E s \in Live, d \in cfg.durations, h \in HexChoices, f \in cfg.forms :
          today = cfg.submitOn /\ SubmitListing(s, d, h, f)
    \/ \E s \in Live, k \in 1..cfg.maxRows :
          today = cfg.approveOn /\ ApproveListing(s, k)
    \/ \E s \in Live, k \in 1..cfg.maxRows, n \in cfg.extensions :
          today >= cfg.extendFrom /\ ExtendListing(s, k, n)

SpecScenario == InitScenario /\ [][NextScenario]_vars

(***************************************************************************)
(* SpecSheet: a spreadsheet that holds one member and one listing whose    *)
(* Approved and Expires_On cells were typed by hand.                       *)
(***************************************************************************)
s_yes_padded == <<" ","y","e","s"," ">>
s_Y          == <<"Y">>
s_1          == <<"1">>
s_no         == <<"n","o">>
s_na         == <<"n","/","a">>

StatusSamples == {s_TRUE, s_yes_padded, s_Y, s_1, s_no, Blank, s_REJECTED}
ExpirySamples == {IsoFormat(StartDay), IsoFormat(StartDay + 1), Blank, s_na}

TypedSheets(member_status, listing_status, expires_on) ==
    [FreshSheets EXCEPT
       !["Members"] = Append(@, <<IdPrefix("Members") \o <<"0","A">>, member_status,
                                  <<" ","a","@","X">>>>),
       !["Business_Listings"] =
           Append(@, <<IdPrefix("Business_Listings") \o <<"0","A">>, listing_status,
                       <<" ","a","@","X">>, FilledForm.name, FilledForm.short,
                       <<"3","0">>, expires_on>>)]

InitSheet ==
    \E ms \in StatusSamples, ls \in StatusSamples, ex \in ExpirySamples :
      /\ ms = s_TRUE \/ ls = s_TRUE
      /\ InitWith(TypedSheets(ms, ls, ex), OldRow,
                 [maxRows |-> RowCountOf(TypedSheets(ms, ls, ex)),
                  lastDay |-> StartDay + MaxDays, sessions |-> {"s1"},
                  durations |-> {7}, extensions |-> {0, 10, 365}, maxExtends |-> MaxExtends, forms |-> {FilledForm}])

NextSheet ==
    \/ Tick
    \/ \E s \in Live, e \in SignInEmails : SetAsMe(s, e)
    \/ \E s \in Live, u \in UsernameInputs, p \in PasswordInputs : AdminLogin(s, u, p)
    \/ \E s \in Live, k \in 1..cfg.maxRows : ApproveMember(s, k)
    \/ \E s \in Live, k \in 1..cfg.maxRows : RejectMember(s, k)
    \/ \E s \in Live, k \in 1..cfg.maxRows : ApproveListing(s, k)
    \/ \E s \in Live, k \in 1..cfg.maxRows : RejectListing(s, k)
    \/ \E s \in Live, k \in 1..cfg.maxRows, n \in cfg.extensions : ExtendListing(s, k, n)

SpecSheet == InitSheet /\ [][NextSheet]_vars

(***************************************************************************)
(* SpecDup: an approved member, and submissions whose identifiers may      *)
(* repeat.                                                                 *)
(***************************************************************************)
InitDup ==
    InitWith(SheetsWithMember, MemberApproved,
             [maxRows |-> DupRows, lastDay |-> StartDay + MaxDays, sessions |-> {"s1"},
              durations |-> {7, 30}, extensions |-> {10}, maxExtends |-> MaxExtends, forms |-> {FilledForm}])

NextDup ==
    \/ Tick
    \/ \E s \in Live, e \in SignInEmails : SetAsMe(s, e)
    \/ \E s \in Live, e \in RegisterEmails, h \in HexChoices : Register(s, e, h)
    \/ \E s \in Live, d \in cfg.durations, h \in HexChoices, f \in cfg.forms :
          SubmitListing(s, d, h, f)
    \/ \E s \in Live, u \in UsernameInputs, p \in PasswordInputs : AdminLogin(s, u, p)
    \/ \E s \in Live, k \in 1..cfg.maxRows : RejectMember(s, k)
    \/ \E s \in Live, k \in 1..cfg.maxRows : ApproveListing(s, k)

SpecDup == InitDup /\ [][NextDup]_vars

(***************************************************************************)
(* SpecStore: one pending member and one pending listing, a store whose    *)
(* calls may raise APIError, and header rows somebody edits or empties.    *)
(***************************************************************************)
InitStore ==
    InitWith(TypedSheets(Blank, Blank, IsoFormat(StartDay + 1)), OldRow,
             [maxRows |-> RowCountOf(TypedSheets(Blank, Blank, Blank)),
              lastDay |-> StartDay, sessions |-> {"s1"},
              durations |-> {7}, extensions |-> {10}, maxExtends |-> MaxExtends, forms |-> {FilledForm},
              faults |-> {{}} \cup {{c} : c \in ApiCalls}])

NextStore ==
    \/ \E f \in SUBSET ApiCalls : Outage(f)
    \/ \E c \in {1, 2} : RenameHeader("Members", c)
    \/ RenameHeader("Business_Listings", HdrGet(DIR_HEADERS, H_Expires_On))
    \/ EraseHeader("Members")
    \/ CacheExpire("Members")
    \/ \E s \in Live, e \in SignInEmails : SetAsMe(s, e)
    \/ \E s \in Live, u \in UsernameInputs, p \in PasswordInputs : AdminLogin(s, u, p)
    \/ \E s \in Live, k \in 1..cfg.maxRows : ApproveMember(s, k)
    \/ \E s \in Live, k \in 1..cfg.maxRows : RejectMember(s, k)
    \/ \E s \in Live, k \in 1..cfg.maxRows, n \in cfg.extensions : ExtendListing(s, k, n)

SpecStore == InitStore /\ [][NextStore]_vars

(***************************************************************************)
(* SpecForms: an approved member and an approved listing; the forms of the *)
(* public tabs are submitted with and without their required fields, and   *)
(* the moderator approves listings.                                        *)
(***************************************************************************)
FormSamples == {FilledForm, [FilledForm EXCEPT !.name = Blank],
                [FilledForm EXCEPT !.short = Blank]}
\* rows the forms may add
FormRows == 2

InitForms ==
    InitWith(TypedSheets(s_TRUE, s_TRUE, Blank), MemberApproved,
             [maxRows |-> RowCountOf(TypedSheets(s_TRUE, s_TRUE, Blank)) + FormRows,
              lastDay |-> StartDay, sessions |-> {"s1"},
              durations |-> {7}, extensions |-> {10}, maxExtends |-> MaxExtends,
              forms |-> FormSamples])

NextForms ==
    \/ \E s \in Live, e \in SignInEmails : SetAsMe(s, e)
    \/ \E s \in Live, u \in UsernameInputs, p \in PasswordInputs : AdminLogin(s, u, p)
    \/ \E s \in Live, e \in RegisterEmails, h \in HexChoices : Register(s, e, h)
    \/ \E s \in Live, d \in cfg.durations, h \in HexChoices, f \in cfg.forms :
          SubmitListing(s, d, h, f)
    \/ \E s \in Live, d \in cfg.durations, h \in HexChoices, f \in cfg.forms :
          SubmitVendor(s, d, h, f)
    \/ \E s \in Live, a \in BOOLEAN, h \in HexChoices : AddShowcase(s, a, h)
    \/ \E s \in Live, e \in {<<"q","@","x">>}, h \in HexChoices :
          CreateTicket(s, e, h)
    \/ \E s \in Live, k \in 1..cfg.maxRows : SubmitRating(s, k)
    \/ \E s \in Live, k \in 1..cfg.maxRows : ApproveListing(s, k)

SpecForms == InitForms /\ [][NextForms]_vars

(***************************************************************************)
(* SpecSteps: two moderator sessions, one of them also signed in as the    *)
(* approved member, and a listing submitted the day before with 30 days;   *)
(* the store functions of the two script runs interleave call by call,     *)
(* with submissions; at some moment update_cell may start to fail.         *)
(***************************************************************************)
\* "Apply extension" is pressed at most this often for one row in SpecSteps
StepExtends == 2
\* queue buttons a session presses in SpecSteps
StepRuns == 1

InitSteps ==
    /\ sheet = TypedSheets(s_TRUE, Blank, IsoFormat(StartDay + 29))
    /\ hist = RowHist(sheet, MemberApproved)
    /\ cache = NoCache
    /\ me = [s \in Sessions |-> IF s = "s2" THEN <<"A","@","x">> ELSE None]
    /\ is_admin = [s \in Sessions |-> TRUE]
    /\ today = StartDay
    /\ tod = 0
    /\ lastOp = NoOp
    /\ cfg = [maxRows |-> RowCountOf(sheet) + 1, lastDay |-> StartDay,
              sessions |-> Sessions, durations |-> {7}, extensions |-> {10},
              maxExtends |-> StepExtends, maxRuns |-> StepRuns, forms |-> {FilledForm},
              faults |-> {{"update_cell"}}]
    /\ down = {}
    /\ job = [s \in Sessions |-> Idle]

NextSteps ==
    \/ \E f \in SUBSET ApiCalls : Outage(f)
    \/ \E s \in Live, k \in 1..cfg.maxRows, op \in {"approve", "reject"} :
          StoreBegin(s, "Business_Listings", k, op, 0)
    \/ \E s \in Live, k \in 1..cfg.maxRows, n \in cfg.extensions :
          StoreBegin(s, "Business_Listings", k, "extend", n)
    \/ \E s \in Live : StoreRowValues(s)
    \/ \E s \in Live : StoreColValues(s)
    \/ \E s \in Live : StoreCell(s)
    \/ \E s \in Live : StoreUpdateCell(s)
    \/ \E s \in Live : StoreUpdateExtra(s)
    \/ \E s \in Live : StoreEnd(s)
    \/ \E d \in cfg.durations, h \in HexChoices, f \in cfg.forms :
          job["s2"].pc = "idle" /\ SubmitListing("s2", d, h, f)

SpecSteps == InitSteps /\ [][NextSteps]_vars

(***************************************************************************)
(* SpecRetry: the worksheet setup every script run starts with, one        *)
(* gspread call at a time.  _get_or_create_worksheets lists the tabs with  *)
(* _retry(sh.worksheets) and calls _ensure_headers for each tab in the     *)
(* order of REQUIRED_TABS: _retry(ws.row_values, 1) and, when row 1 is     *)
(* empty, _retry(ws.update, "A1", [headers]).  job[s] holds the call being *)
(* retried (call), the tab (title, 0 for sh.worksheets), the loop variable *)
(* (attempt), the invocations made by this _retry (calls) and what it      *)
(* returned (result).                                                      *)
(***************************************************************************)
\* "for attempt in range(5)"
RetryAttempts == 5

\* the titles of REQUIRED_TABS in list order
TabOrder == <<"Members", "Business_Listings", "Vicinity_Vendors", "Showcase",
              "Ratings", "Support_Tickets">>

\* the script run enters _retry(call, ...)
EnterRetry(j, call, title) ==
    [pc |-> "retry", runs |-> j.runs, call |-> call, title |-> title,
     attempt |-> 0, calls |-> 0, result |-> <<>>]

\* what the call does when it succeeds: the worksheet afterwards and the value returned
CallEffect(j) ==
    LET t == IF j.title = 0 THEN "Members" ELSE TabOrder[j.title]
    IN  IF j.call = "row_values"
        THEN [ws |-> sheet[t],
              result |-> IF sheet[t] = <<>> THEN <<>> ELSE _header_map(sheet[t], <<>>)]
        ELSE IF j.call = "update"
        THEN [ws |-> <<REQUIRED_TABS[t]>> \o (IF sheet[t] = <<>> THEN <<>> ELSE Tail(sheet[t])),
              result |-> <<>>]
        ELSE [ws |-> sheet[t], result |-> TabOrder]

\* A script run starts: tabs_map = _get_or_create_worksheets(sh, REQUIRED_TABS)
_get_or_create_worksheets(s) ==
    /\ job[s].pc = "idle"
    /\ job' = [job EXCEPT ![s] = EnterRetry(job[s], "worksheets", 0)]
    /\ UNCHANGED <<sheet, cache, me, is_admin, today, tod, lastOp, hist, cfg, down>>

\* _retry, had its loop gone on until the call succeeds
_retry_until_success(s) ==
    /\ job[s].pc = "retry"
    /\ LET j == job[s]
           t == IF j.title = 0 THEN "Members" ELSE TabOrder[j.title]
       IN  IF j.call \in down
           THEN /\ job' = [job EXCEPT ![s] = [j EXCEPT !.attempt = (@ + 1) % RetryAttempts,
                                                       !.calls = @ + 1]]
                /\ UNCHANGED <<sheet, hist>>
           ELSE /\ job' = [job EXCEPT ![s] = [j EXCEPT !.calls = @ + 1, !.pc = "returned",
                                                       !.result = CallEffect(j).result]]
                /\ sheet' = [sheet EXCEPT ![t] = CallEffect(j).ws]
                /\ hist' = [hist EXCEPT ![t] = IF @ = <<>> THEN <<OldRow>> ELSE @]
    /\ UNCHANGED <<cache, me, is_admin, today, tod, lastOp, cfg, down>>

\* One iteration of the loop of _retry: the call is made; its result is returned,
\* or its APIError is kept in last and the run sleeps; after range(5) is used up,
\* "raise last".
_retry(s) ==
    /\ job[s].pc = "retry"
    /\ LET j == job[s]
           t == IF j.title = 0 THEN "Members" ELSE TabOrder[j.title]
       IN  IF j.call \in down
           THEN /\ job' = [job EXCEPT ![s] =
                             [j EXCEPT !.attempt = @ + 1, !.calls = @ + 1,
                                       !.pc = IF j.attempt + 1 < RetryAttempts
                                              THEN "retry" ELSE "raise"]]
                /\ UNCHANGED <<sheet, hist>>
           ELSE /\ job' = [job EXCEPT ![s] = [j EXCEPT !.calls = @ + 1, !.pc = "returned",
                                                       !.result = CallEffect(j).result]]
                /\ sheet' = [sheet EXCEPT ![t] = CallEffect(j).ws]
                /\ hist' = [hist EXCEPT ![t] = IF @ = <<>> THEN <<OldRow>> ELSE @]
    /\ UNCHANGED <<cache, me, is_admin, today, tod, lastOp, cfg, down>>

\* The caller of _retry goes on.  _get_or_create_worksheets re-raises the APIError
\* of sh.worksheets, and the script stops ("Could not open or create worksheets");
\* _ensure_headers writes the headers when row 1 is empty and passes over an
\* APIError; after the last tab the setup is done.
_ensure_headers(s) ==
    /\ job[s].pc \in {"returned", "raise"}
    /\ LET j    == job[s]
           stop == j.call = "worksheets" /\ j.pc = "raise"
           done == j.title = Len(TabOrder)
                   /\ ~(j.call = "row_values" /\ j.pc = "returned" /\ j.result = <<>>)
       IN  /\ job' = [job EXCEPT ![s] =
                        IF stop \/ done THEN [Idle EXCEPT !.runs = j.runs]
                        ELSE IF j.call = "row_values" /\ j.pc = "returned" /\ j.result = <<>>
                        THEN EnterRetry(j, "update", j.title)
                        ELSE EnterRetry(j, "row_values", j.title + 1)]
           /\ lastOp' = IF stop \/ done
                        THEN [NoOp EXCEPT !.op = "setup", !.ok = done, !.down = down,
                                          !.msg = IF stop THEN "exception" ELSE "success"]
                        ELSE lastOp
    /\ UNCHANGED <<sheet, cache, me, is_admin, today, tod, hist, cfg, down>>

\* a spreadsheet whose Ratings and Support_Tickets tabs have no header row yet
InitRetry ==
    InitWith([FreshSheets EXCEPT !["Ratings"] = <<>>, !["Support_Tickets"] = <<>>], OldRow,
             [maxRows |-> 0, lastDay |-> StartDay, sessions |-> {"s1"},
              durations |-> {7}, extensions |-> {10}, maxExtends |-> MaxExtends,
              forms |-> {FilledForm},
              faults |-> {{}, {"worksheets"}, {"row_values"}, {"update"},
                          {"worksheets", "row_values", "update"}}])

NextRetry ==
    \/ \E f \in cfg.faults : Outage(f)
    \/ \E s \in Live : _get_or_create_worksheets(s)
    \/ \E s \in Live : _retry(s)
    \/ \E s \in Live : _ensure_headers(s)

\* the script's thread keeps running: time.sleep returns and the next call is made
SpecRetry == InitRetry /\ [][NextRetry]_vars /\ WF_vars(_retry("s1"))

(***************************************************************************)
(* What the pages show.                                                    *)
(***************************************************************************)
\* the expires_col df_public is called with for each worksheet; the Members
\* worksheet is given the test of the Showcase call (Approved only)
ExpiresCol(t) == IF t \in {"Business_Listings", "Vicinity_Vendors"} THEN H_Expires_On ELSE None

\* the sheet rows df_public keeps of the frame read_df returns
PublicRows(t) ==
    {i + 1 : i \in Range(df_public_rows(read_df(sheet, cache, t), H_Approved, ExpiresCol(t)))}

\* the Approved cell of a sheet row
StatusIn(sh, t, r) == sh[t][r][HdrGet(REQUIRED_TABS[t], H_Approved)]

\* the Expires_On cell of a sheet row of Business_Listings or Vicinity_Vendors
ExpiresIn(sh, t, r) == sh[t][r][HdrGet(REQUIRED_TABS[t], H_Expires_On)]

SaveOps == {"save_member", "save_directory", "save_vendor", "save_showcase"}
ModeratedTabs == {"Members", "Business_Listings", "Vicinity_Vendors"}
ExpiryTabs == {"Business_Listings", "Vicinity_Vendors"}

(***************************************************************************)
(* C1                                                                      *)
(***************************************************************************)
\* C1, as stated: the row a save_* handler has just appended has a blank Approved
\* cell, and a row that approve_by_id has not written is in no public view.
C1_NewRecordPending ==
    /\ lastOp.op \in SaveOps => StatusIn(sheet, lastOp.tab, lastOp.row) = Blank
    /\ \A t \in Tabs : \A r \in 2..Len(sheet[t]) :
           ~hist[t][r].approved => r \notin PublicRows(t)

\* C1, amended: the row save_member, save_directory, save_vendor or
\* save_showcase(approve=False) has just appended has a blank Approved cell, the
\* row save_showcase(approve=True) has just appended holds "TRUE" and is in the
\* public view at once, and every other row is in no public view until
\* approve_by_id has written it.
C1_PendingUnlessPostedApproved ==
    /\ (lastOp.op \in SaveOps /\ ~(lastOp.op = "save_showcase" /\ lastOp.ok))
          => /\ StatusIn(sheet, lastOp.tab, lastOp.row) = Blank
             /\ lastOp.row \notin PublicRows(lastOp.tab)
    /\ (lastOp.op = "save_showcase" /\ lastOp.ok)
          => /\ StatusIn(sheet, "Showcase", lastOp.row) = s_TRUE
             /\ lastOp.row \in PublicRows("Showcase")
    /\ \A t \in Tabs : \A r \in 2..Len(sheet[t]) :
           (~hist[t][r].approved /\ ~hist[t][r].pre) => r \notin PublicRows(t)

\* a listing has just been submitted next to a member that was approved
C1_Witness ==
    /\ lastOp.op = "save_directory"
    /\ StatusIn(sheet, "Business_Listings", lastOp.row) = Blank
    /\ lastOp.row \notin PublicRows("Business_Listings")
    /\ \E r \in 2..Len(sheet["Members"]) :
          hist["Members"][r].approved /\ r \in PublicRows("Members")

(***************************************************************************)
(* C7                                                                      *)
(***************************************************************************)
\* isApproved, or the rejected sentinel
Terminal(v) == StrLower(StrStrip(v)) \in TRUE_LIKE \/ v = s_REJECTED

\* C7: in every step, a Member, Listing or Vendor row whose status is Approved
\* or Rejected keeps that status.
C7_TerminalStatus ==
    [][\A t \in ModeratedTabs : \A r \in 2..Len(sheet[t]) :
          Terminal(StatusIn(sheet, t, r)) => StatusIn(sheet', t, r) = StatusIn(sheet, t, r)]_vars

(***************************************************************************)
(* C2, C3                                                                  *)
(***************************************************************************)
\* C2: a row approve_by_id has written is in the public view of its worksheet at
\* an instant if and only if the worksheet has no Expires_On filter or the date
\* in the row's Expires_On cell is the current day or a later day.
C2_ApprovedVisibleThroughExpiryDay ==
    \A t \in Tabs : \A r \in 2..Len(sheet[t]) :
        hist[t][r].approved =>
            (r \in PublicRows(t) <=>
                (t \notin ExpiryTabs \/ ParseIsoDate(ExpiresIn(sheet, t, r)) >= today))

\* the signed-in moderator is offered the "Apply extension" button of a sheet row
ExtendOffered(t, r) ==
    \A s \in Live : is_admin[s] =>
        \E k \in 1..Len(PendRows(QueueFrame(t))) :
            QueueButton(s, t, k) /\ PendRows(QueueFrame(t))[k] + 1 = r

\* C3: the listing L (sheet row 2) submitted with duration 30 on day D is pending
\* with Expires_On D+30; approved on D+5 it holds TRUE and D+35; from D+40 on it
\* is out of the public view and extend(L, 10) can be applied; once applied,
\* Expires_On is D+45 and L is in the public view exactly up to day D+45.
C3_Scenario ==
    LET t == "Business_Listings"
        L == 2
        D == cfg.submitOn
    IN  Len(sheet[t]) >= L =>
          /\ lastOp.op = "save_directory"
                => /\ StatusIn(sheet, t, L) = Blank
                   /\ ExpiresIn(sheet, t, L) = IsoFormat(D + 30)
          /\ (lastOp.op = "approve" /\ lastOp.row = L)
                => /\ StatusIn(sheet, t, L) = s_TRUE
                   /\ ExpiresIn(sheet, t, L) = IsoFormat(D + 35)
          /\ (hist[t][L].approved /\ hist[t][L].ext = 0 /\ today >= D + 40)
                => /\ L \notin PublicRows(t)
                   /\ ExtendOffered(t, L)
          /\ (hist[t][L].approved /\ hist[t][L].ext = 1)
                => /\ ExpiresIn(sheet, t, L) = IsoFormat(D + 45)
                   /\ L \in PublicRows(t) <=> today <= D + 45
(***************************************************************************)
(* C5                                                                      *)
(***************************************************************************)
\* C5: a step in which extend_expiry writes a row leaves in its Expires_On cell
\* the date n days after the date the cell held, or n days after today when the
\* cell was blank or held no date; and so would it for every n of 0..365 (computed
\* at the steps that apply 0 days to a row not extended before).
C5_ExtendAddsDays ==
    [][\A t \in ExpiryTabs : \A r \in 2..Len(sheet[t]) :
          hist'[t][r].ext # hist[t][r].ext =>
              LET prior == ExpiresIn(sheet, t, r)
                  base  == IF prior \in {Blank, s_na} THEN today ELSE ParseIsoDate(prior)
              IN  /\ base >= StartDay
                  /\ lastOp'.n \in ExtendRange
                  /\ ParseIsoDate(ExpiresIn(sheet', t, r)) = base + lastOp'.n
                  /\ (lastOp'.n = 0 /\ hist[t][r].ext = 0) =>
                        \A n \in ExtendRange :
                            ParseIsoDate(extend_new_date(prior, n, today)) = base + n]_vars

\* extend has been applied with 365 days to a row whose Expires_On held no date
C5_Witness ==
    /\ lastOp.op = "extend" /\ lastOp.ok
    /\ lastOp.n = 365
    /\ lastOp.prev = s_na
    /\ ParseIsoDate(ExpiresIn(sheet, lastOp.tab, lastOp.row)) >= StartDay + 365

(***************************************************************************)
(* C8                                                                      *)
(***************************************************************************)
ApprovedSamples == {s_TRUE, s_yes_padded, s_Y, s_1}
RefusedSamples  == {s_no, Blank, s_REJECTED}

\* the sheet rows df_public keeps when it is given no expiry column
ApprovedRows(t) ==
    {i + 1 : i \in Range(df_public_rows(read_df(sheet, cache, t), H_Approved, None))}

\* C8: "TRUE", " yes ", "Y" and "1" pass the approval test and "no", "" and
\* "REJECTED" fail it, in df_public and in member_is_approved alike.
C8_IsApproved ==
    /\ \A r \in 2..Len(sheet["Business_Listings"]) :
          LET v == StatusIn(sheet, "Business_Listings", r)
          IN  /\ v \in ApprovedSamples \cup RefusedSamples
              /\ r \in ApprovedRows("Business_Listings") <=> v \in ApprovedSamples
    /\ \A r \in 2..Len(sheet["Members"]) :
          LET v == StatusIn(sheet, "Members", r)
          IN  /\ v \in ApprovedSamples \cup RefusedSamples
              /\ member_is_approved(sheet["Members"][r][HdrGet(MEM_HEADERS, H_Email)],
                                    read_df(sheet, cache, "Members"))
                    <=> v \in ApprovedSamples

\* a member whose status was typed as " yes " has signed in, next to a listing
\* typed as "TRUE" that is shown
C8_Witness ==
    /\ StatusIn(sheet, "Members", 2) = s_yes_padded
    /\ lastOp.op = "set_me" /\ lastOp.ok
    /\ me["s1"] # None
    /\ 2 \in ApprovedRows("Business_Listings")

(***************************************************************************)
(* C9, C10                                                                 *)
(***************************************************************************)
\* C9: a listing or vendor row that passes the approval test and whose
\* Expires_On cell holds a date is in the public view if and only if that date
\* is the current day or a later day.
C9_VisibleIffExpiresTodayOrLater ==
    \A t \in ExpiryTabs : \A r \in 2..Len(sheet[t]) :
        (r \in ApprovedRows(t) /\ ParseIsoDate(ExpiresIn(sheet, t, r)) # 0)
            => (r \in PublicRows(t) <=> ParseIsoDate(ExpiresIn(sheet, t, r)) >= today)

\* C10: a listing or vendor row whose status passes the approval test and whose
\* Expires_On cell is blank or holds no date is in the public view at every instant.
C10_NoDateNeverExpires ==
    \A t \in ExpiryTabs : \A r \in 2..Len(sheet[t]) :
        (StatusIn(sheet, t, r) \in ApprovedSamples /\ ExpiresIn(sheet, t, r) \in {Blank, s_na})
            => r \in PublicRows(t)

\* on the last day, after midnight, a listing typed as "Y" whose Expires_On holds
\* no date is shown
C10_Witness ==
    /\ today = cfg.lastDay /\ tod > 0
    /\ StatusIn(sheet, "Business_Listings", 2) = s_Y
    /\ ExpiresIn(sheet, "Business_Listings", 2) = s_na
    /\ 2 \in PublicRows("Business_Listings")
(***************************************************************************)
(* C4, C6                                                                  *)
(***************************************************************************)
\* C4: whenever save_directory or save_vendor has appended a row, the Members
\* worksheet held, when the handler ran, a row with the submitter's email that
\* passed the approval test.
C4_SubmitterApprovedAtSubmission ==
    lastOp.op \in {"save_directory", "save_vendor"} => lastOp.ok

\* the Duration_Days cell of a sheet row of Business_Listings or Vicinity_Vendors
DurationIn(sh, t, r) == sh[t][r][HdrGet(REQUIRED_TABS[t], H_Duration_Days)]

\* C6: a step that approves a listing or vendor on day T leaves the row it writes
\* with Approved = "TRUE" and Expires_On = T + d, d being that row's Duration_Days,
\* and the row it writes is the row whose button was pressed.
C6_ApproveSetsExpiry ==
    [][(lastOp'.op = "approve" /\ lastOp'.tab \in ExpiryTabs /\ lastOp'.row # 0
        /\ (lastOp' # lastOp \/ sheet' # sheet))
          => LET t == lastOp'.tab
                 w == lastOp'.row
             IN  /\ StatusIn(sheet', t, w) = s_TRUE
                 /\ ExpiresIn(sheet', t, w) = IsoFormat(today + ParseInt(DurationIn(sheet, t, w)))
                 /\ lastOp'.clicked = w]_vars

(***************************************************************************)
(* C11                                                                     *)
(***************************************************************************)
\* C11: at every instant, before or after its expiry, a listing or vendor row
\* whose status passes the approval test has its "Apply extension" button
\* offered to the signed-in moderator.
C11_ExtendOfferedWhenApproved ==
    \A t \in ExpiryTabs : \A r \in 2..Len(sheet[t]) :
        StrLower(StrStrip(StatusIn(sheet, t, r))) \in TRUE_LIKE => ExtendOffered(t, r)

(***************************************************************************)
(* C12                                                                     *)
(***************************************************************************)
\* C12: when "Approve" or "Reject" ran with every store call answering and wrote
\* no row (no row holds the identifier, or row 1 lacks the identifier column or
\* the Approved column), the moderator is not shown the message of a successful
\* approve or reject.
C12_MissingRowOrColumnSignalled ==
    (lastOp.op \in {"approve", "reject"} /\ lastOp.down = {} /\ ~lastOp.ok)
        => lastOp.msg # "success"

(***************************************************************************)
(* C13                                                                     *)
(***************************************************************************)
\* C13: whenever "Approve", "Reject" or "Apply extension" ran while a store call
\* was raising APIError and the moderator was shown the handler's success
\* message, the handler's cell update was applied to the worksheet.
C13_NoSilentlyLostWrite ==
    (lastOp.op \in {"approve", "reject", "extend"} /\ lastOp.down # {}
     /\ lastOp.msg = "success")
        => lastOp.ok

(***************************************************************************)
(* C14                                                                     *)
(***************************************************************************)
\* C14: while the read of the store raises, read_df of a worksheet that is not in
\* the cache returns the empty frame; and on every empty frame read_df returns,
\* df_public keeps no row and member_is_approved refuses every email without
\* raising.
C14_FailedReadIsEmpty ==
    \A t \in Tabs :
        LET df == read_df(sheet, cache, t)
        IN  /\ ("get_all_values" \in down /\ ~cache[t].hit) => df = EmptyDF
            /\ DfEmpty(df) =>
                 /\ PublicRows(t) = {}
                 /\ df_public(df, H_Approved, ExpiresCol(t)) = EmptyDF
                 /\ \A e \in SignInEmails :
                        ~member_is_approved(e, df) /\ ~member_check_raises(e, df)

\* "Set as me" ran with the email of a member whose row holds TRUE while the read
\* of the store raised: the sign-in was refused with the warning, and the empty
\* frame is what the cache now holds for Members
C14_Witness ==
    /\ lastOp.op = "set_me" /\ lastOp.down = {"get_all_values"}
    /\ StatusIn(sheet, "Members", 2) = s_TRUE
    /\ StrLower(lastOp.prev) = StrLower(StrStrip(sheet["Members"][2][HdrGet(MEM_HEADERS, H_Email)]))
    /\ ~lastOp.ok /\ lastOp.msg = "warning"
    /\ cache["Members"] = [hit |-> TRUE, df |-> EmptyDF]
    /\ me["s1"] = None

(***************************************************************************)
(* C15                                                                     *)
(***************************************************************************)
\* C15: whenever a write operation has written the store (a save_* function has
\* appended its row; approve, reject or extend has updated a cell), the cache
\* held no entry when the operation returned.
C15_CacheClearedAfterWrite ==
    (lastOp.op \in SaveOps \cup {"save_ticket", "save_rating", "approve", "reject", "extend"}
     /\ lastOp.row # 0) => lastOp.cleared

(***************************************************************************)
(* C16                                                                     *)
(***************************************************************************)
\* C16: no row appended by "Submit for approval" or "Submit vendor" has an empty
\* name or an empty short description.
C16_RequiredFieldsValidated ==
    [][\A t \in ExpiryTabs :
          Len(sheet'[t]) > Len(sheet[t]) =>
              LET new == sheet'[t][Len(sheet'[t])]
              IN  /\ new[HdrGet(REQUIRED_TABS[t], NameCol(t))] # Blank
                  /\ new[HdrGet(REQUIRED_TABS[t], H_Short_Description)] # Blank]_vars

(***************************************************************************)
(* C17, C18                                                                *)
(***************************************************************************)
\* the sheet rows in the moderation queue of a worksheet (pend_m, pend_d, pend_v)
QueueRows(t) == {i + 1 : i \in Range(PendRows(read_df(sheet, cache, t)))}

\* C17: in Members, Business_Listings and Vicinity_Vendors every row holds "",
\* "REJECTED" or "TRUE" in its Approved cell; every row with "" (Pending) or
\* "REJECTED" is in the moderation queue and no row with "TRUE" is.
C17_QueueIsNotApproved ==
    \A t \in ModeratedTabs : \A r \in 2..Len(sheet[t]) :
        LET v == StatusIn(sheet, t, r)
        IN  /\ v \in {Blank, s_REJECTED, s_TRUE}
            /\ v \in {Blank, s_REJECTED} => r \in QueueRows(t)
            /\ v = s_TRUE => r \notin QueueRows(t)

\* a listing has just been rejected and is in the queue, next to an approved
\* member that is not
C17_Witness ==
    /\ lastOp.op = "reject" /\ lastOp.tab = "Business_Listings" /\ lastOp.ok
    /\ StatusIn(sheet, "Business_Listings", lastOp.row) = s_REJECTED
    /\ lastOp.row \in QueueRows("Business_Listings")
    /\ StatusIn(sheet, "Members", 2) = s_TRUE
    /\ 2 \notin QueueRows("Members")

\* C18: after a reject that wrote its row, the row holds "REJECTED", which is not
\* the blank of Pending and does not pass the approval test; and a row that holds
\* "REJECTED" is in no moderation queue.
C18_RejectedLeavesQueue ==
    /\ (lastOp.op = "reject" /\ lastOp.ok)
          => StatusIn(sheet, lastOp.tab, lastOp.row) = s_REJECTED
    /\ \A t \in ModeratedTabs : \A r \in 2..Len(sheet[t]) :
          StatusIn(sheet, t, r) = s_REJECTED
              => /\ s_REJECTED # Blank
                 /\ StrLower(StrStrip(s_REJECTED)) \notin TRUE_LIKE
                 /\ r \notin QueueRows(t)

(***************************************************************************)
(* C19                                                                     *)
(***************************************************************************)
\* C19: in every step, each worksheet keeps every row it had, at the same
\* position and with the same identifier cell, whether the row is pending,
\* approved, rejected or expired.
C19_RecordsNeverDeleted ==
    [][\A t \in Tabs :
          /\ Len(sheet'[t]) >= Len(sheet[t])
          /\ \A r \in 2..Len(sheet[t]) : sheet'[t][r][1] = sheet[t][r][1]]_vars

\* a member was rejected, and its row is still stored, in no public view, after
\* a later registration has been appended behind it
C19_Witness ==
    /\ lastOp.op = "save_member" /\ lastOp.row = 3
    /\ StatusIn(sheet, "Members", 2) = s_REJECTED
    /\ sheet["Members"][2][1] \in {IdPrefix("Members") \o h : h \in HexChoices}
    /\ 2 \notin PublicRows("Members")

(***************************************************************************)
(* C20                                                                     *)
(***************************************************************************)
\* C20: member_is_approved accepts an email if and only if the email is not empty
\* and the Members frame it reads has a row with that email (strip and lower on
\* both sides) whose Approved cell is true-like; the frame is the worksheet's rows
\* when the read is not cached and the store answers; an empty email, an email of
\* no row, and an empty frame (no rows, or the read failed) are refused.
C20_MemberIsApproved ==
    LET df == read_df(sheet, cache, "Members")
        HasApprovedRow(email) ==
            /\ ColOf(df, H_Email) # 0 /\ ColOf(df, H_Approved) # 0
            /\ \E i \in 1..Len(df.rows) :
                  /\ StrLower(StrStrip(df.rows[i][ColOf(df, H_Email)]))
                        = StrLower(StrStrip(email))
                  /\ StrLower(StrStrip(df.rows[i][ColOf(df, H_Approved)])) \in TRUE_LIKE
    IN  /\ (~cache["Members"].hit /\ "get_all_values" \notin down)
              => df = ToDF(sheet["Members"])
        /\ \A e \in SignInEmails \cup RegisterEmails :
              /\ member_is_approved(e, df) <=> (e # Blank /\ HasApprovedRow(e))
              /\ (e = Blank \/ DfEmpty(df)) => ~member_is_approved(e, df)
              /\ (\A i \in 1..Len(df.rows) :
                     StrLower(StrStrip(RowGet(df, df.rows[i], H_Email))) # StrLower(StrStrip(e)))
                    => ~member_is_approved(e, df)
        /\ (lastOp.op = "set_me" /\ lastOp.ok) => lastOp.prev # Blank

\* "Set as me" with "A@x " has been accepted against the row whose Email cell
\* holds " a@X" and whose Approved cell holds "TRUE", while the store answered
C20_Witness ==
    /\ lastOp.op = "set_me" /\ lastOp.ok /\ lastOp.down = {}
    /\ lastOp.prev = <<"A","@","x">>
    /\ me["s1"] = <<"A","@","x">>
    /\ sheet["Members"][2][HdrGet(MEM_HEADERS, H_Email)] = <<" ","a","@","X">>
    /\ StatusIn(sheet, "Members", 2) = s_TRUE
    /\ member_is_approved(<<"A","@","x"," ">>, read_df(sheet, cache, "Members"))

(***************************************************************************)
(* C21  In every session, approve, reject, extend and add-showcase run     *)
(* only while the session's admin flag is set, and the flag becomes set    *)
(* only by a sign-in whose typed username and password are exactly the     *)
(* configured APP_USERNAME and APP_PASSWORD.                               *)
(***************************************************************************)
C21_AdminOnlyByExactCredentials ==
    [][/\ (lastOp' # lastOp
           /\ lastOp'.op \in {"approve", "reject", "extend", "save_showcase"})
          => \A s \in Live : is_admin[s]
       /\ \A s \in Live :
            (~is_admin[s] /\ is_admin'[s])
            => /\ lastOp'.op = "login"
               /\ lastOp'.cred = <<APP_USERNAME, APP_PASSWORD>>]_vars

(***************************************************************************)
(* C22  After any sequence of submissions, no two rows of one worksheet    *)
(* carry the same identifier: every save_* generates an identifier that    *)
(* differs from the identifiers already in the worksheet.                  *)
(***************************************************************************)
C22_IdentifiersUnique ==
    \A t \in Tabs \ {"Ratings"} :
        \A i, j \in 2..Len(sheet[t]) :
            i # j => StrStrip(sheet[t][i][1]) # StrStrip(sheet[t][j][1])

(***************************************************************************)
(* C23  extend_expiry changes only the Expires_On cell of the row whose    *)
(* identifier was requested: the row's Approved cell and its other cells,  *)
(* every other row and every other worksheet stay as they were, and a row  *)
(* that was pending (blank) or REJECTED is not in the public view after    *)
(* the extension.                                                          *)
(***************************************************************************)
C23_ExtendWritesExpiryOnly ==
    [][\A t \in ExpiryTabs : \A r \in 2..Len(sheet[t]) :
          hist'[t][r].ext # hist[t][r].ext =>
              /\ lastOp'.op = "extend" /\ lastOp'.tab = t /\ lastOp'.row = r
              /\ StrStrip(sheet[t][r][1]) = StrStrip(sheet[t][lastOp'.clicked][1])
              /\ \A u \in Tabs :
                    /\ Len(sheet'[u]) = Len(sheet[u])
                    /\ \A i \in 1..Len(sheet[u]) :
                          /\ Len(sheet'[u][i]) = Len(sheet[u][i])
                          /\ \A c \in 1..Len(sheet[u][i]) :
                                (u # t \/ i # r \/ c # HdrGet(REQUIRED_TABS[t], H_Expires_On))
                                => sheet'[u][i][c] = sheet[u][i][c]
              /\ StatusIn(sheet', t, r) = StatusIn(sheet, t, r)
              /\ StatusIn(sheet, t, r) \in {Blank, s_REJECTED} => r \notin PublicRows(t)']_vars

\* a REJECTED listing whose Expires_On had passed has been extended to a later
\* date, next to a Members row
C23_Witness ==
    /\ lastOp.op = "extend" /\ lastOp.ok /\ lastOp.n > 0
    /\ lastOp.tab = "Business_Listings"
    /\ StatusIn(sheet, "Business_Listings", lastOp.row) = s_REJECTED
    /\ ParseIsoDate(lastOp.prev) # 0 /\ ParseIsoDate(lastOp.prev) < today
    /\ ParseIsoDate(ExpiresIn(sheet, "Business_Listings", lastOp.row)) > today
    /\ Len(sheet["Members"]) > 1

(***************************************************************************)
(* C24  approve_by_id is atomic in status and expiry: for a listing or     *)
(* vendor with a positive duration, the store is never in a state, seen    *)
(* by another session or left by a failing call, in which the row's        *)
(* Approved cell is already the TRUE this approve wrote while its          *)
(* Expires_On cell still holds the value from before the approve.          *)
(***************************************************************************)
C24_ApproveAtomic ==
    \A s \in Live :
        (/\ job[s].pc # "idle"
         /\ job[s].op = "approve"
         /\ job[s].wrote > 0
         /\ job[s].extra # <<>>
         /\ job[s].extra[1][2] # job[s].before
         /\ StatusIn(sheet, job[s].tab, job[s].row) = s_TRUE)
        => ExpiresIn(sheet, job[s].tab, job[s].row) # job[s].before

(***************************************************************************)
(* C25  When two moderator sessions run extend_expiry on one record at the *)
(* same time, with n and m days, the record's Expires_On is afterwards the *)
(* value it had plus n + m days, whatever the order of their reads and     *)
(* writes: a row that approve has not written holds, once no extension is  *)
(* under way, the date it was submitted with plus the days of every        *)
(* extension that was written to it.                                       *)
(***************************************************************************)
C25_NoLostExtension ==
    LET t == "Business_Listings"
        submitted(r) == IF r = 2 THEN StartDay + 29
                        ELSE StartDay + ParseInt(DurationIn(sheet, t, r))
    IN  \A r \in 2..Len(sheet[t]) :
            (/\ ~hist[t][r].approved
             /\ \A s \in Live : job[s].pc # "idle" => job[s].op # "extend")
            => \A n \in cfg.extensions :
                  ParseIsoDate(ExpiresIn(sheet, t, r)) = submitted(r) + hist[t][r].ext * n

(***************************************************************************)
(* C26  Whatever submissions of other sessions fall between the identifier *)
(* scan and the cell update of approve_by_id, reject_by_id or              *)
(* extend_expiry, the row position the scan resolved still addresses the   *)
(* same record at the update: every cell these functions write lies in a   *)
(* row whose identifier cell holds the requested identifier.               *)
(***************************************************************************)
C26_WritesRequestedRecord ==
    [][\A t \in Tabs : \A r \in 1..Len(sheet[t]) :
          (Len(sheet'[t]) = Len(sheet[t]) /\ sheet'[t][r] # sheet[t][r])
          => \E s \in Live :
                /\ job[s].pc \in {"update_cell", "update_extra"}
                /\ job'[s].wrote = job[s].wrote + 1
                /\ job[s].tab = t /\ job[s].row = r
                /\ StrStrip(sheet[t][r][HdrGet(REQUIRED_TABS[t], IdCol(t))]) = StrStrip(job[s].id)
                /\ sheet'[t][r][HdrGet(REQUIRED_TABS[t], IdCol(t))]
                     = sheet[t][r][HdrGet(REQUIRED_TABS[t], IdCol(t))]]_vars

\* an approve has written both its cells to the listing it was asked for, after
\* a submission appended a row behind the rows its identifier scan had returned
C26_Witness ==
    \E s \in Live :
        /\ job[s].pc = "clear_cache" /\ job[s].op = "approve" /\ job[s].wrote = 2
        /\ job[s].seen > 0
        /\ Len(sheet[job[s].tab]) > job[s].seen
        /\ StrStrip(sheet[job[s].tab][job[s].row][1]) = StrStrip(job[s].id)
        /\ StatusIn(sheet, job[s].tab, job[s].row) = s_TRUE

(***************************************************************************)
(* C27  The public view and the moderation queue agree on what approved    *)
(* means: whatever the Approved cell holds (blank, TRUE, REJECTED, or a    *)
(* typed 'yes', 'Y', '1', a value with surrounding blanks), a row is in    *)
(* the pending queue exactly when it does not pass df_public's approval    *)
(* test, so no row is publicly approved and pending at once.               *)
(***************************************************************************)
C27_QueueIsComplementOfApproved ==
    \A t \in ModeratedTabs :
        \A r \in 2..Len(sheet[t]) :
            r \in QueueRows(t) <=> r \notin ApprovedRows(t)

(***************************************************************************)
(* C28  When approve_by_id, reject_by_id or extend_expiry is called with   *)
(* an identifier its scan finds in no row, or on a worksheet whose header  *)
(* row lacks the identifier column or the Approved / Expires_On column,    *)
(* no cell of the spreadsheet changes and the read cache is left as it     *)
(* was: every frame it held is still held.                                 *)
(***************************************************************************)
C28_NoMatchNoWrite ==
    [][(/\ lastOp'.op \in {"approve", "reject", "extend"}
        /\ lastOp'.row = 0
        /\ lastOp'.msg = "success"
        /\ \E s \in Live, k \in 1..cfg.maxRows :
              \/ ApproveMember(s, k) \/ RejectMember(s, k)
              \/ ApproveListing(s, k) \/ RejectListing(s, k)
              \/ ApproveVendor(s, k) \/ RejectVendor(s, k)
              \/ \E n \in cfg.extensions : ExtendListing(s, k, n) \/ ExtendVendor(s, k, n))
       => /\ sheet' = sheet
          /\ ~lastOp'.cleared
          /\ \A t \in Tabs : cache[t].hit => cache'[t] = cache[t]]_vars

\* "Apply extension" was pressed for a listing while the header row of
\* Business_Listings had no Expires_On cell: the frames read before are cached
C28_Witness ==
    /\ lastOp.op = "extend" /\ lastOp.tab = "Business_Listings"
    /\ lastOp.row = 0 /\ lastOp.msg = "success" /\ lastOp.down = {}
    /\ HdrGet(_header_map(sheet["Business_Listings"], DIR_HEADERS), H_Expires_On) = 0
    /\ HdrGet(_header_map(sheet["Business_Listings"], DIR_HEADERS), H_Listing_ID) # 0
    /\ cache["Business_Listings"].hit
    /\ cache["Business_Listings"].df.columns = DIR_HEADERS

(***************************************************************************)
(* C30  When row 1 of a worksheet is empty or cannot be read (APIError),   *)
(* approve_by_id, reject_by_id and extend_expiry take the column           *)
(* positions from the worksheet's default header list and go on with the   *)
(* identifier scan and the update instead of failing.                      *)
(***************************************************************************)
C30_DefaultHeaderUsed ==
    [][\A s \in Live, k \in 1..cfg.maxRows :
         (/\ lastOp'.op \in {"approve", "reject", "extend"}
          /\ \/ down = {"row_values"}
             \/ down = {} /\ \A c \in 1..Len(sheet[lastOp'.tab][1]) :
                                sheet[lastOp'.tab][1][c] = Blank
          /\ \/ ApproveMember(s, k) \/ RejectMember(s, k)
             \/ \E n \in cfg.extensions : ExtendListing(s, k, n))
         => LET t   == lastOp'.tab
                id  == RowGet(QueueFrame(t), QueueRow(t, k), IdCol(t))
                row == _find_row_by_id(sheet[t], HdrGet(REQUIRED_TABS[t], IdCol(t)), id)
                col == HdrGet(REQUIRED_TABS[t], TargetCol(lastOp'.op))
            IN  /\ _header_map(sheet[t], REQUIRED_TABS[t]) = REQUIRED_TABS[t]
                /\ lastOp'.msg = "success"
                /\ lastOp'.row = row
                /\ row # 0 =>
                      sheet'[t][row][col] =
                        IF lastOp'.op = "approve" THEN s_TRUE
                        ELSE IF lastOp'.op = "reject" THEN s_REJECTED
                        ELSE extend_new_date(sheet[t][row][col], lastOp'.n, today)]_vars

\* a member was approved while the header row of Members was empty in the
\* spreadsheet (the queue was drawn from the frame cached before)
C30_Witness ==
    /\ lastOp.op = "approve" /\ lastOp.tab = "Members" /\ lastOp.ok
    /\ lastOp.down = {}
    /\ \A c \in 1..Len(sheet["Members"][1]) : sheet["Members"][1][c] = Blank
    /\ StatusIn(sheet, "Members", lastOp.row) = s_TRUE

(***************************************************************************)
(* C29  _retry always terminates: it makes the wrapped call at most 5      *)
(* times, returns the result of the first attempt that succeeds without    *)
(* calling again, and after 5 APIErrors in a row raises the last one to    *)
(* its caller instead of returning a value.                                *)
(***************************************************************************)
C29_RetryTerminates ==
    /\ [](\A s \in Live : job[s].pc \in {"retry", "returned", "raise"}
                          => job[s].calls <= RetryAttempts)
    /\ [][\A s \in Live :
            (job[s].pc = "retry" /\ job'[s] # job[s])
            => /\ job'[s].calls = job[s].calls + 1
               /\ job[s].call \notin down
                  => /\ job'[s].pc = "returned"
                     /\ job'[s].result = CallEffect(job[s]).result
               /\ job[s].call \in down
                  => /\ job'[s].pc = IF job'[s].calls = RetryAttempts THEN "raise" ELSE "retry"
                     /\ job'[s].result = <<>>
                     /\ sheet' = sheet]_vars
    /\ [][\A s \in Live :
            (job[s].pc \in {"returned", "raise"} /\ job'[s] # job[s])
            => job'[s].pc = "idle" \/ (job'[s].pc = "retry" /\ job'[s].calls = 0)]_vars
    /\ \A s \in {"s1"} : (job[s].pc = "retry") ~> (job[s].pc \in {"returned", "raise"})

\* a _retry has raised after five failed calls
C29_Witness ==
    /\ job["s1"].pc = "raise"
    /\ job["s1"].calls = RetryAttempts
    /\ job["s1"].call \in down
=============================================================================
